---- MODULE Spec2Model ----
(***************************************************************************)
(* Milestone reconciliation scripts of ai-cyber-security-roadmap:          *)
(* cleanup_duplicate_milestones.py, remove_sync_duplicates.py,             *)
(* validate_manifest.py, the roadmap-table extraction and folding of       *)
(* sync_roadmaps_to_manifest.py / rebuild_manifest_from_roadmaps.py, the   *)
(* roadmap table of standardize_readmes.py and the steps of                *)
(* sync_workspace.py.                                                      *)
(*                                                                         *)
(* Python strings are sequences of one-character strings, so that          *)
(* lower(), replace(), strip(), split(), substring tests, the id regex and *)
(* strptime are computed on the characters.  A dict is a record carrying   *)
(* every key; a key that is missing holds ABSENT and a key bound to None   *)
(* holds NONE.                                                             *)
(***************************************************************************)
EXTENDS Integers, Sequences, FiniteSets, TLC

VARIABLES
    manifest,    \* content of manifest.json (Truncated after a write that failed)
    disk_ok,     \* FALSE once a failed write left manifest.json truncated
    op,          \* the script that ran last ("none" before any run)
    dry_run,     \* the --dry-run flag of that run
    loaded,      \* the milestones list that run read from manifest.json
    cleaned,     \* cleaned_milestones / original_milestones computed by that run
    removed,     \* removed_milestones of remove_sync_duplicates
    saved,       \* "none" (save_manifest not called), "ok" or "failed"
    exit_code,   \* exit status of that run
    errors,      \* validate_manifest: the errors list
    warnings,    \* validate_manifest: the warnings list
    raised,      \* validate_manifest: an uncaught exception ended the run
    readme,      \* the README.md of the repositories that have one, by repository name
    extracted,   \* all_milestones of the last sync run
    updated_count, \* what update_manifest_milestones returned in the last sync run
    only_repo,   \* the --repo argument of the last sync run, NONE without one
    rebuilt,     \* new_milestones of the last rebuild run
    skipped,     \* the records that run dropped with a 'Skipping duplicate' line
    status_text, \* a status cell of a roadmap table
    status_norm, \* what lines 124-133 made of it, NONE before they ran
    step,        \* sync_workspace: the step main() is at, 0 before it runs, 9 past the last
    started,     \* sync_workspace: the commands handed to subprocess.run, in order
    results,     \* sync_workspace: how each step ended, in order
    skip_hooks   \* sync_workspace: the --skip-hooks flag

\* the variables of sync_workspace.py alone
pipeline_vars == <<step, started, results, skip_hooks>>

vars == <<manifest, disk_ok, op, dry_run, loaded, cleaned, removed, saved,
          exit_code, errors, warnings, raised, readme, extracted, updated_count, only_repo,
          rebuilt, skipped, status_text, status_norm, pipeline_vars>>

-----------------------------------------------------------------------------
(* Bounds of the model *)

\* longest milestones list of an initial ledger
MaxLen == 3

\* most data rows of the roadmap table of a README
MaxRows == 2

-----------------------------------------------------------------------------
(* Python values *)

\* a dict key that is not there / a key bound to None
ABSENT == <<"<absent>">>
NONE == <<"<None>">>

\* bool(v) of a string-or-None value (a missing key reads as None through .get)
Truthy(v) == v # ABSENT /\ v # NONE /\ v # <<>>

\* d.get(k, default)
Get(v, default) == IF v = ABSENT THEN default ELSE v

\* str(v) as an f-string renders it
Str(v) == IF v = NONE THEN <<"N","o","n","e">> ELSE v

LowerAlpha == <<"a","b","c","d","e","f","g","h","i","j","k","l","m","n","o","p","q","r","s","t","u","v","w","x","y","z">>
UpperAlpha == <<"A","B","C","D","E","F","G","H","I","J","K","L","M","N","O","P","Q","R","S","T","U","V","W","X","Y","Z">>
Digits == <<"0","1","2","3","4","5","6","7","8","9">>

IsLowerAlpha(c) == c \in {LowerAlpha[i] : i \in 1..26}
IsDigit(c) == c \in {Digits[i] : i \in 1..10}
IsSpace(c) == c \in {" ", "\t", "\n"}

\* str.lower(), character by character
LowerOf == [i \in 1..26 |-> LowerAlpha[i]]
UpperIndex == [c \in {UpperAlpha[i] : i \in 1..26} |-> CHOOSE i \in 1..26 : UpperAlpha[i] = c]
LowerChar(c) == IF c \in DOMAIN UpperIndex THEN LowerOf[UpperIndex[c]] ELSE c
RECURSIVE Lower(_)
Lower(s) == IF s = <<>> THEN <<>> ELSE <<LowerChar(Head(s))>> \o Lower(Tail(s))

\* str.replace(c, '') for a one-character c
Remove(s, c) == SelectSeq(s, LAMBDA x : x # c)

\* sub in s
Contains(s, sub) ==
    \E i \in 1..(Len(s) - Len(sub) + 1) : \A j \in 1..Len(sub) : s[i + j - 1] = sub[j]

\* str.strip()
RECURSIVE LStrip(_)
LStrip(s) == IF s # <<>> /\ IsSpace(Head(s)) THEN LStrip(Tail(s)) ELSE s
RECURSIVE RStrip(_)
RStrip(s) == IF s # <<>> /\ IsSpace(s[Len(s)]) THEN RStrip(SubSeq(s, 1, Len(s) - 1)) ELSE s
Strip(s) == RStrip(LStrip(s))

\* int(s) for a string of ASCII digits
DigitValue(c) == (CHOOSE i \in 1..10 : Digits[i] = c) - 1
RECURSIVE ParseInt(_)
ParseInt(s) == IF s = <<>> THEN 0
               ELSE 10 * ParseInt(SubSeq(s, 1, Len(s) - 1)) + DigitValue(s[Len(s)])

\* s.split(sep) for a one-character sep: the pieces, in order; the piece
\* being read starts at `start`, and i is the character looked at
RECURSIVE SplitFrom(_, _, _, _)
SplitFrom(s, sep, start, i) ==
    IF i > Len(s) THEN <<SubSeq(s, start, Len(s))>>
    ELSE IF s[i] = sep THEN <<SubSeq(s, start, i - 1)>> \o SplitFrom(s, sep, i + 1, i + 1)
    ELSE SplitFrom(s, sep, start, i + 1)

Split(s, sep) == SplitFrom(s, sep, 1, 1)

\* all sequences over S of length at most n
SeqsUpTo(S, n) == UNION {[1..k -> S] : k \in 0..n}

-----------------------------------------------------------------------------
(* Milestone dicts *)

Milestone(id, title, category, status, due, date, repo) ==
    [id |-> id, title |-> title, category |-> category, status |-> status,
     due |-> due, date |-> date, repo |-> repo]

TODO == <<"t","o","d","o">>
DONE == <<"d","o","n","e">>
IN_PROGRESS == <<"i","n","_","p","r","o","g","r","e","s","s">>
PLANNED == <<"p","l","a","n","n","e","d">>

-----------------------------------------------------------------------------
(* cleanup_duplicate_milestones.py *)

\* title.lower().replace(' ', '').replace('-', '').replace('_', '')
normalized_title(title) == Remove(Remove(Remove(Lower(title), " "), "-"), "_")

KeyAll(nt, kws) == \A w \in kws : Contains(nt, w)

\* group_key with the 'docker'/'ci' rule lost: such titles fall through to the
\* repo:title key
group_key_without_docker_rule(m) ==
    LET repo == Get(m.repo, <<>>)
        title == Get(m.title, <<>>)
        nt == normalized_title(title)
        pre == Str(repo) \o <<":">>
    IN IF KeyAll(nt, {<<"s","c","a","f","f","o","l","d">>, <<"r","e","p","o">>})
       THEN pre \o <<"s","c","a","f","f","o","l","d">>
       ELSE IF KeyAll(nt, {<<"s","e","c","u","r","e">>, <<"a","p","i">>,
                           <<"i","n","t","e","g","r","a","t","i","o","n">>})
       THEN pre \o <<"s","e","c","u","r","e","_","a","p","i","_","i","n","t","e","g","r","a","t","i","o","n">>
       ELSE IF KeyAll(nt, {<<"j","w","t">>, <<"a","u","t","h">>})
       THEN pre \o <<"j","w","t","_","a","u","t","h">>
       ELSE pre \o Str(title)

\* the key under which cleanup_duplicates files a milestone
group_key(m) ==
    LET repo == Get(m.repo, <<>>)
        title == Get(m.title, <<>>)
        nt == normalized_title(title)
        pre == Str(repo) \o <<":">>
    IN IF KeyAll(nt, {<<"s","c","a","f","f","o","l","d">>, <<"r","e","p","o">>})
       THEN pre \o <<"s","c","a","f","f","o","l","d">>
       ELSE IF KeyAll(nt, {<<"s","e","c","u","r","e">>, <<"a","p","i">>,
                           <<"i","n","t","e","g","r","a","t","i","o","n">>})
       THEN pre \o <<"s","e","c","u","r","e","_","a","p","i","_","i","n","t","e","g","r","a","t","i","o","n">>
       ELSE IF KeyAll(nt, {<<"d","o","c","k","e","r">>, <<"c","i">>})
       THEN pre \o <<"d","o","c","k","e","r","_","c","i","c","d">>
       ELSE IF KeyAll(nt, {<<"j","w","t">>, <<"a","u","t","h">>})
       THEN pre \o <<"j","w","t","_","a","u","t","h">>
       ELSE pre \o Str(title)

\* the key computed for each milestone of the list, in list order
RECURSIVE milestone_keys(_)
milestone_keys(milestones) ==
    IF milestones = <<>> THEN <<>>
    ELSE <<group_key(Head(milestones))>> \o milestone_keys(Tail(milestones))

\* the keys of `grouped`, in insertion order (first occurrence in the list)
RECURSIVE insertion_order(_, _)
insertion_order(keys, acc) ==
    IF keys = <<>> THEN acc
    ELSE insertion_order(Tail(keys),
                         IF \E j \in 1..Len(acc) : acc[j] = Head(keys)
                         THEN acc ELSE Append(acc, Head(keys)))

grouped_keys(keys) == insertion_order(keys, <<>>)

\* lines 76-78 with `grouped[key] = [milestone]` in place of the append: the
\* last milestone filed under key alone
grouped_keeping_last(milestones, keys, key) ==
    LET hits == {i \in 1..Len(keys) : keys[i] = key}
    IN IF hits = {} THEN <<>> ELSE <<milestones[CHOOSE i \in hits : \A h \in hits : h <= i]>>

\* grouped[key]: the milestones filed under key, in list order
RECURSIVE grouped(_, _, _)
grouped(milestones, keys, key) ==
    IF milestones = <<>> THEN <<>>
    ELSE (IF Head(keys) = key THEN <<Head(milestones)>> ELSE <<>>)
         \o grouped(Tail(milestones), Tail(keys), key)

\* the test of line 99 without its `merged[field] == 'todo'` clause
promotes_only_into_empty(cur, dup) == dup # ABSENT /\ Truthy(dup) /\ ~Truthy(cur)

\* the test of line 99, on one field: cur is merged's value, dup the duplicate's
promotes(cur, dup) == dup # ABSENT /\ Truthy(dup) /\ (~Truthy(cur) \/ cur = TODO)

promote(cur, dup) == IF promotes(cur, dup) THEN dup ELSE cur

\* one pass of the inner loop over ['category', 'status', 'due', 'date', 'id']
merge_duplicate(merged, duplicate) ==
    [merged EXCEPT !.category = promote(@, duplicate.category),
                   !.status = promote(@, duplicate.status),
                   !.due = promote(@, duplicate.due),
                   !.date = promote(@, duplicate.date),
                   !.id = promote(@, duplicate.id)]

\* merged = milestone_group[0].copy(), then every later duplicate merged in
RECURSIVE merge_rest(_, _)
merge_rest(merged, duplicates) ==
    IF duplicates = <<>> THEN merged
    ELSE merge_rest(merge_duplicate(merged, Head(duplicates)), Tail(duplicates))

merge_group(milestone_group) == merge_rest(Head(milestone_group), Tail(milestone_group))

\* cleaned_milestones.append(merged) indented into the loop over the duplicates
RECURSIVE merge_rest_appending(_, _)
merge_rest_appending(merged, duplicates) ==
    IF duplicates = <<>> THEN <<>>
    ELSE <<merge_rest(merged, duplicates)>> \o merge_rest_appending(merged, Tail(duplicates))

cleaned_of_group_appending_in_loop(milestone_group) ==
    IF Len(milestone_group) = 1 THEN <<milestone_group[1]>>
    ELSE merge_rest_appending(Head(milestone_group), Tail(milestone_group))

\* what one group contributes to cleaned_milestones
cleaned_of_group(milestone_group) ==
    IF Len(milestone_group) = 1 THEN <<milestone_group[1]>>
    ELSE <<merge_group(milestone_group)>>

RECURSIVE cleaned_of_groups(_, _, _)
cleaned_of_groups(milestones, keys, order) ==
    IF order = <<>> THEN <<>>
    ELSE cleaned_of_group(grouped(milestones, keys, Head(order)))
         \o cleaned_of_groups(milestones, keys, Tail(order))

cleanup_duplicates(milestones) ==
    LET keys == milestone_keys(milestones)
    IN cleaned_of_groups(milestones, keys, grouped_keys(keys))

-----------------------------------------------------------------------------
(* remove_sync_duplicates.py *)

\* re.match(r'^[a-z]+-\d+$', s); '$' also matches before one final line break
matches_sync_pattern(s) ==
    LET body(t) == \E k \in 2..(Len(t) - 1) :
                      /\ t[k] = "-"
                      /\ \A i \in 1..(k - 1) : IsLowerAlpha(t[i])
                      /\ \A i \in (k + 1)..Len(t) : IsDigit(t[i])
    IN \/ body(s)
       \/ s # <<>> /\ s[Len(s)] = "\n" /\ body(SubSeq(s, 1, Len(s) - 1))

\* the watermark of line 57
SyncWatermark == 20

\* the condition of line 57 with > in place of >=
is_sync_generated_above_watermark(milestone) ==
    LET milestone_id == Get(milestone.id, <<>>)
    IN /\ matches_sync_pattern(milestone_id)
       /\ ParseInt(Strip(Split(milestone_id, "-")[2])) > SyncWatermark

\* the condition of line 57 on milestone.get('id', '')
is_sync_generated(milestone) ==
    LET milestone_id == Get(milestone.id, <<>>)
    IN /\ matches_sync_pattern(milestone_id)
       /\ ParseInt(Strip(Split(milestone_id, "-")[2])) >= SyncWatermark

original_milestones(milestones) == SelectSeq(milestones, LAMBDA m : ~is_sync_generated(m))

removed_milestones(milestones) == SelectSeq(milestones, is_sync_generated)

-----------------------------------------------------------------------------
(* validate_manifest.py *)

ALLOWED_REPO_STATUS ==
    {<<"a","c","t","i","v","e">>, PLANNED, <<"s","c","a","f","f","o","l","d","e","d">>, <<"s","t","u","b">>, DONE}
ALLOWED_MS_STATUS == {TODO, IN_PROGRESS, DONE, PLANNED}

AllDigits(s) == \A i \in 1..Len(s) : IsDigit(s[i])

\* what strptime's %d and %m accept: one or two digits (for %d also a blank and
\* a digit), the number between 1 and max
DayOrMonthField(s, max, blank_padded) ==
    \/ Len(s) \in {1, 2} /\ AllDigits(s) /\ ParseInt(s) \in 1..max
    \/ blank_padded /\ Len(s) = 2 /\ s[1] = " " /\ IsDigit(s[2]) /\ s[2] # "0"

\* what strptime's %Y accepts: four digits
YearField(s) == Len(s) = 4 /\ AllDigits(s)

DaysInMonth(year, month) ==
    IF month \in {4, 6, 9, 11} THEN 30
    ELSE IF month # 2 THEN 31
    ELSE IF year % 4 = 0 /\ (year % 100 # 0 \/ year % 400 = 0) THEN 29
    ELSE 28

\* datetime(year, month, day) does not raise
ValidDate(year, month, day) == year >= 1 /\ day <= DaysInMonth(year, month)

\* datetime.datetime.strptime(s, fmt) returns for one of the two formats
strptime_ok(s, fmt) ==
    IF fmt = "%d/%m/%Y"
    THEN LET parts == Split(s, "/")
         IN /\ Len(parts) = 3
            /\ DayOrMonthField(parts[1], 31, TRUE)
            /\ DayOrMonthField(parts[2], 12, FALSE)
            /\ YearField(parts[3])
            /\ ValidDate(ParseInt(parts[3]), ParseInt(parts[2]), ParseInt(LStrip(parts[1])))
    ELSE LET parts == Split(s, "-")
         IN /\ Len(parts) = 3
            /\ YearField(parts[1])
            /\ DayOrMonthField(parts[2], 12, FALSE)
            /\ DayOrMonthField(parts[3], 31, TRUE)
            /\ ValidDate(ParseInt(parts[1]), ParseInt(parts[2]), ParseInt(LStrip(parts[3])))

\* parse_date_any(s) is not None
parse_date_any(s) == strptime_ok(s, "%d/%m/%Y") \/ strptime_ok(s, "%Y-%m-%d")

StartsWith(s, prefix) == Len(s) >= Len(prefix) /\ SubSeq(s, 1, Len(prefix)) = prefix

\* JSON values of the wrong type, and missing and null values where a list or
\* an object is expected: a number for a string, the object {} for a list
NOT_A_STRING == <<"<number>">>
NOT_A_LIST == <<[json |-> "<empty object>"]>>
ABSENT_LIST == <<[json |-> "<absent>"]>>
ABSENT_OBJECT == [json |-> "<absent>"]
NULL_OBJECT == [json |-> "<None>"]
TOPICS_NOT_A_LIST == <<<<"<empty object>">>>>
TOPICS_ABSENT == <<ABSENT>>
TOPICS_NONE == <<NONE>>

url_like(u) ==
    /\ u \notin {ABSENT, NONE, NOT_A_STRING}
    /\ StartsWith(u, <<"h","t","t","p",":","/","/">>) \/ StartsWith(u, <<"h","t","t","p","s",":","/","/">>)

\* d.get(k): a missing key reads as None
GetNone(v) == IF v = ABSENT THEN NONE ELSE v

\* (d.get(k) or "")
OrEmpty(v) == IF Truthy(v) THEN v ELSE <<>>

\* one entry of errors or warnings: the check that failed, the 1-based position
\* and the name or id the message prints
Finding(kind, at, ref) == [kind |-> kind, at |-> at, ref |-> ref]

\* the local state of main(): the two lists, the three sets and whether an
\* exception ended the run
ValidatorStart ==
    [errors |-> <<>>, warnings |-> <<>>, seen_repo_names |-> {}, seen_ids |-> {},
     seen_pairs |-> {}, raised |-> FALSE]

AddError(v, cond, kind, at, ref) ==
    IF cond THEN [v EXCEPT !.errors = Append(@, Finding(kind, at, ref))] ELSE v

AddWarning(v, cond, kind, at, ref) ==
    IF cond THEN [v EXCEPT !.warnings = Append(@, Finding(kind, at, ref))] ELSE v

\* lines 34-36
check_updated(v, m) ==
    AddError(v, ~Truthy(m.updated) \/ ~parse_date_any(m.updated), "updated", 0, <<>>)

PROGRESS_KEYS ==
    <<"learning", "projects", "backend", "flutter", "react", "react_native", "certifications">>

\* a value of the progress mapping: is_int says whether isinstance(v, int)
Progress(is_int, n) == [is_int |-> is_int, n |-> n]

\* lines 39-43
RECURSIVE check_progress(_, _, _)
check_progress(v, prog, n) ==
    IF n > Len(PROGRESS_KEYS) THEN v
    ELSE LET value == prog[PROGRESS_KEYS[n]]
         IN check_progress(
                AddError(v, ~value.is_int \/ ~(0 <= value.n /\ value.n <= 100),
                         "progress", n, <<>>),
                prog, n + 1)

\* lines 46-48
check_focus(v, m) ==
    LET sp == GetNone(m.focus.security_prep_start)
    IN AddError(v, Truthy(sp) /\ ~parse_date_any(sp), "focus", 0, <<>>)

\* lines 80-87 for one repository: the topics checks; iterating a list that
\* holds a number raises at len(t)
TOPICS_MAX == 8
TOPIC_LEN_MAX == 30

RECURSIVE check_topic_lengths(_, _, _, _)
check_topic_lengths(v, topics, i, name) ==
    IF topics = <<>> THEN v
    ELSE IF Head(topics) = NOT_A_STRING THEN [v EXCEPT !.raised = TRUE]
    ELSE check_topic_lengths(
             AddWarning(v, Len(Head(topics)) > TOPIC_LEN_MAX, "topic_length", i, name),
             Tail(topics), i, name)

check_topics(v, r, i, name) ==
    LET topics == IF r.topics = TOPICS_ABSENT THEN <<>> ELSE r.topics
    IN IF topics = TOPICS_NONE THEN v
       ELSE IF topics = TOPICS_NOT_A_LIST
       THEN AddError(v, TRUE, "topics", i, name)
       ELSE LET bad == \E k \in 1..Len(topics) : topics[k] = NOT_A_STRING
                v1 == AddError(v, bad, "topics", i, name)
                v2 == AddWarning(v1, ~bad /\ Len(topics) > TOPICS_MAX, "topics_count", i, name)
            IN check_topic_lengths(v2, topics, i, name)

\* lines 57-87 for the i-th repository
check_repository(v, r, i) ==
    LET name == GetNone(r.name)
        status == Lower(OrEmpty(r.status))
        target == GetNone(r.target)
        v1 == IF ~Truthy(name) THEN AddError(v, TRUE, "repo_name", i, <<>>)
              ELSE AddError(v, name \in v.seen_repo_names, "repo_duplicate", i, name)
        v2 == [v1 EXCEPT !.seen_repo_names = @ \cup {name}]
        v3 == AddError(v2, ~url_like(r.url), "repo_url", i, name)
        v4 == AddError(v3, ~Truthy(r.description), "repo_description", i, name)
        v5 == AddWarning(v4, r.short_description = ABSENT, "short_description", i, name)
        v6 == AddError(v5, status # <<>> /\ status \notin ALLOWED_REPO_STATUS,
                       "repo_status", i, name)
        v7 == AddError(v6, target \notin {NONE, <<>>} /\ ~parse_date_any(target),
                       "repo_target", i, name)
    IN check_topics(v7, r, i, name)

RECURSIVE check_repositories(_, _, _)
check_repositories(v, repos, i) ==
    IF v.raised \/ i > Len(repos) THEN v
    ELSE check_repositories(check_repository(v, repos[i], i), repos, i + 1)

\* lines 51-54: repositories must be a non-empty list
repositories_listed(m) ==
    IF m.repositories \in {ABSENT_LIST, NOT_A_LIST, <<>>} THEN <<>> ELSE m.repositories

\* lines 101-105; the caller adds mid to seen_ids
check_ms_id(v, mid, j) ==
    IF ~Truthy(mid) THEN AddError(v, TRUE, "ms_id", j, <<>>)
    ELSE AddError(v, mid \in v.seen_ids, "ms_duplicate_id", j, mid)

\* lines 98 and 110-111
check_ms_status(v, stored, j, mid) ==
    AddError(v, Lower(OrEmpty(stored)) \notin ALLOWED_MS_STATUS, "ms_status", j, mid)

\* lines 113-117 with the loop of line 115 running over due alone
check_ms_dates_due_only(v, due, date, j, mid) ==
    LET v1 == AddError(v, ~(Truthy(due) \/ Truthy(date)), "ms_due_or_date", j, mid)
    IN AddError(v1, Truthy(due) /\ ~parse_date_any(due), "ms_due_format", j, mid)

\* lines 113-117
check_ms_dates(v, due, date, j, mid) ==
    LET v1 == AddError(v, ~(Truthy(due) \/ Truthy(date)), "ms_due_or_date", j, mid)
        v2 == AddError(v1, Truthy(due) /\ ~parse_date_any(due), "ms_due_format", j, mid)
    IN AddError(v2, Truthy(date) /\ ~parse_date_any(date), "ms_date_format", j, mid)

\* lines 119-121 without the `repo and` guard
check_ms_repo_unguarded(v, repo, j, mid) ==
    AddError(v, repo \notin v.seen_repo_names, "ms_repo", j, mid)

\* lines 119-121
check_ms_repo(v, repo, j, mid) ==
    AddError(v, Truthy(repo) /\ repo \notin v.seen_repo_names, "ms_repo", j, mid)

\* line 124
duplicate_pair(repo, title, due, date) ==
    << OrEmpty(repo),
       IF Truthy(title) THEN Lower(Strip(title)) ELSE <<>>,
       IF Truthy(due) THEN due ELSE OrEmpty(date) >>

\* lines 96-127 for the j-th milestone; a title that is a number passes
\* `if not title` and raises at title.strip() of line 124
check_milestone(v, m, j) ==
    LET mid == GetNone(m.id)
        title == GetNone(m.title)
        due == GetNone(m.due)
        date == GetNone(m.date)
        repo == GetNone(m.repo)
        v1 == check_ms_id(v, mid, j)
        v2 == [v1 EXCEPT !.seen_ids = @ \cup {mid}]
        v3 == AddError(v2, ~Truthy(title), "ms_title", j, mid)
        v4 == check_ms_status(v3, m.status, j, mid)
        v5 == check_ms_dates(v4, due, date, j, mid)
        v6 == check_ms_repo(v5, repo, j, mid)
        pair == duplicate_pair(repo, title, due, date)
        v7 == AddError(v6, pair \in v.seen_pairs, "ms_duplicate", j, mid)
    IN IF title = NOT_A_STRING THEN [v6 EXCEPT !.raised = TRUE]
       ELSE [v7 EXCEPT !.seen_pairs = @ \cup {pair}]

\* lines 90-93: manifest.get("milestones", []), replaced by [] when it is no list
milestones_listed(m) ==
    IF m.milestones \in {ABSENT_LIST, NOT_A_LIST} THEN <<>> ELSE m.milestones

RECURSIVE check_milestones(_, _, _)
check_milestones(v, milestones, j) ==
    IF v.raised \/ j > Len(milestones) THEN v
    ELSE check_milestones(check_milestone(v, milestones[j], j), milestones, j + 1)

\* lines 130-136
check_next_milestone(v, m) ==
    LET nm == m.next_milestone
    IN IF v.raised \/ nm \in {ABSENT_OBJECT, NULL_OBJECT} THEN v
       ELSE LET nm_id == GetNone(nm.id)
                nm_due == GetNone(nm.due)
                v1 == AddError(v, ~Truthy(nm_id) \/ nm_id \notin v.seen_ids, "next_id", 0, <<>>)
            IN AddError(v1, Truthy(nm_due) /\ ~parse_date_any(nm_due), "next_due", 0, <<>>)

\* main() from line 33 on, for a manifest that parsed
validate(m) ==
    LET v1 == check_focus(check_progress(check_updated(ValidatorStart, m), m.progress, 1), m)
        v2 == AddError(v1, m.repositories \in {ABSENT_LIST, NOT_A_LIST, <<>>}, "repositories", 0, <<>>)
        v3 == check_repositories(v2, repositories_listed(m), 1)
        v4 == AddError(v3, ~v3.raised /\ m.milestones = NOT_A_LIST, "milestones", 0, <<>>)
        v5 == check_milestones(v4, milestones_listed(m), 1)
    IN check_next_milestone(v5, m)

\* the exit status: an uncaught exception and a non-empty errors list both give 1
validate_exit(v) == IF v.raised \/ v.errors # <<>> THEN 1 ELSE 0

-----------------------------------------------------------------------------
(* sync_roadmaps_to_manifest.py: the roadmap table of a README *)

(* A README is the sequence of its lines, content.split('\n').  The three   *)
(* glyphs the parser looks for are one character each.                      *)
CALENDAR == "<calendar>"
CHECK == "<check>"
HOURGLASS == "<hourglass>"

HEADING == <<"#","#"," ",CALENDAR," ","R","o","a","d","m","a","p">>
HEADING_BARE == <<CALENDAR," ","R","o","a","d","m","a","p">>

EndsWith(s, suffix) ==
    Len(s) >= Len(suffix) /\ SubSeq(s, Len(s) - Len(suffix) + 1, Len(s)) = suffix

\* the first line from `from` on that starts with one of prefixes, 0 if none
first_starting_with(lines, from, prefixes) ==
    LET hits == {k \in from..Len(lines) : \E x \in prefixes : StartsWith(lines[k], x)}
    IN IF hits = {} THEN 0 ELSE CHOOSE k \in hits : \A h \in hits : k <= h

\* where re.search finds `heading\s*\n`: the first line that ends with the
\* heading, trailing blanks aside, and is followed by a newline; 0 if none
heading_line(lines, heading) ==
    LET hits == {i \in 1..(Len(lines) - 1) : EndsWith(RStrip(lines[i]), heading)}
    IN IF hits = {} THEN 0 ELSE CHOOSE i \in hits : \A h \in hits : i <= h

\* group(1) of a pattern matched at heading line i.  The greedy \s* runs over
\* the blank lines after the heading, so the group starts at the first line
\* that is not blank; the lazy group ends before the first later line that
\* opens with a terminator, or at the end of the text where \Z is allowed.
\* Without \Z and without a terminator the match either fails or backtracks
\* to a group of blank lines: no table either way.
captured(lines, i, terminators, end_allowed) ==
    LET rest == {k \in (i + 1)..Len(lines) : Strip(lines[k]) # <<>>}
    IN IF rest = {} THEN <<>>
       ELSE LET s == CHOOSE k \in rest : \A h \in rest : k <= h
                t == first_starting_with(lines, s + 1, terminators)
            IN IF t # 0 THEN SubSeq(lines, s, t - 1)
               ELSE IF end_allowed THEN SubSeq(lines, s, Len(lines))
               ELSE <<>>

\* lines 69-83: the three patterns in order.  The second matches only where
\* the first does, so it never decides.
roadmap_section(lines) ==
    LET first == heading_line(lines, HEADING)
        third == heading_line(lines, HEADING_BARE)
    IN IF first # 0
       THEN captured(lines, first, {<<"-","-","-">>, <<"#","#"," ">>}, TRUE)
       ELSE IF third # 0
       THEN captured(lines, third, {<<"-","-","-">>, <<"#","#">>}, FALSE)
       ELSE <<>>

\* [col.strip() for col in line.split('|') if col.strip()]
RECURSIVE stripped_nonempty(_)
stripped_nonempty(cols) ==
    IF cols = <<>> THEN <<>>
    ELSE (IF Strip(Head(cols)) # <<>> THEN <<Strip(Head(cols))>> ELSE <<>>)
         \o stripped_nonempty(Tail(cols))

row_parts(line) == stripped_nonempty(Split(line, "|"))

\* lines 125-133 with the two tests in the other order
normalize_status_progress_first(status) ==
    IF \/ Contains(status, <<HOURGLASS>>)
       \/ Contains(status, <<"P","e","n","d","i","n","g">>)
       \/ Contains(status, <<"I","n"," ","P","r","o","g","r","e","s","s">>) THEN IN_PROGRESS
    ELSE IF Contains(status, <<CHECK>>) \/ Contains(status, <<"D","o","n","e">>) THEN DONE
    ELSE TODO

\* lines 125-133
normalize_status(status) ==
    IF Contains(status, <<CHECK>>) \/ Contains(status, <<"D","o","n","e">>) THEN DONE
    ELSE IF \/ Contains(status, <<HOURGLASS>>)
            \/ Contains(status, <<"P","e","n","d","i","n","g">>)
            \/ Contains(status, <<"I","n"," ","P","r","o","g","r","e","s","s">>) THEN IN_PROGRESS
    ELSE TODO

\* a milestone dict as parse_roadmap_table builds it: no id, date or repo key
Extracted(title, category, due, status) ==
    Milestone(ABSENT, title, category, status, due, ABSENT, ABSENT)

\* lines 113-117 reading the second cell as the category as well
row_of_three_second_cell_as_category(parts) ==
    Extracted(parts[1], parts[2], parts[2], normalize_status(parts[3]))

\* lines 113-117: Milestone | Date | Status
row_of_three(parts) ==
    Extracted(parts[1], NONE, parts[2], normalize_status(parts[3]))

\* lines 118-122: Milestone | Category | Date | Status
row_of_four(parts) ==
    Extracted(parts[1], parts[2], parts[3], normalize_status(parts[4]))

\* line 96
is_header_row(line) ==
    /\ Contains(line, <<"|">>)
    /\ Contains(line, <<"M","i","l","e","s","t","o","n","e">>) \/ Contains(line, <<"C","a","t","e","g","o","r","y">>)

\* lines 90-135.  A row of five or more cells fills neither branch of lines
\* 113-122, and milestone['status'] at line 125 raises KeyError.
RECURSIVE parse_rows(_, _, _)
parse_rows(lines, in_table, found) ==
    IF lines = <<>> THEN [milestones |-> found, raised |-> FALSE]
    ELSE LET line == Strip(Head(lines))
             parts == row_parts(line)
         IN IF line = <<>> THEN parse_rows(Tail(lines), in_table, found)
            ELSE IF is_header_row(line) THEN parse_rows(Tail(lines), TRUE, found)
            ELSE IF in_table /\ Contains(line, <<"-","-","-">>)
            THEN parse_rows(Tail(lines), in_table, found)
            ELSE IF in_table /\ Contains(line, <<"|">>) /\ Len(parts) >= 3
            THEN IF Len(parts) = 3
                 THEN parse_rows(Tail(lines), in_table, Append(found, row_of_three(parts)))
                 ELSE IF Len(parts) = 4
                 THEN parse_rows(Tail(lines), in_table, Append(found, row_of_four(parts)))
                 ELSE [milestones |-> found, raised |-> TRUE]
            ELSE parse_rows(Tail(lines), in_table, found)

\* lines 61-137
parse_roadmap_table(content) == parse_rows(roadmap_section(content), FALSE, <<>>)

\* a README.md that does not exist
NO_README == <<<<"<no file>">>>>

\* lines 152-153
RECURSIVE with_repo(_, _)
with_repo(milestones, repo_name) ==
    IF milestones = <<>> THEN <<>>
    ELSE <<[Head(milestones) EXCEPT !.repo = repo_name]>> \o with_repo(Tail(milestones), repo_name)

\* lines 139-158: a missing README and an exception both give []
extract_milestones_from_readme(content, repo_name) ==
    IF content = NO_README THEN <<>>
    ELSE LET parsed == parse_roadmap_table(content)
         IN IF parsed.raised THEN <<>> ELSE with_repo(parsed.milestones, repo_name)

-----------------------------------------------------------------------------
(* sync_roadmaps_to_manifest.py: folding the extracted rows into the ledger *)

\* the keys of REPO_PATHS, lines 27-35
REPO_PATHS ==
    {<<"m","l","-","f","o","u","n","d","a","t","i","o","n","s">>,
     <<"p","h","i","s","h","i","n","g","-","c","l","a","s","s","i","f","i","e","r">>,
     <<"s","e","c","u","r","e","-","a","i","-","a","p","i">>,
     <<"a","i","-","c","h","a","t","-","r","a","g">>,
     <<"f","l","u","t","t","e","r","-","i","a","m">>,
     <<"a","p","i","-","s","h","o","w","c","a","s","e">>,
     <<"a","i","-","c","y","b","e","r","-","s","e","c","u","r","i","t","y","-","r","o","a","d","m","a","p">>}

\* f"{milestone.get('repo', '')}:{milestone.get('title', '')}", lines 171 and 185
repo_title_key(m) == Str(Get(m.repo, <<>>)) \o <<":">> \o Str(Get(m.title, <<>>))

\* lines 200-204, on the two lower-cased titles
similar_titles(existing_title, new_title) ==
    \E word \in {<<"s","c","a","f","f","o","l","d">>, <<"i","n","t","e","g","r","a","t","i","o","n">>, <<"a","u","t","h">>, <<"d","o","c","k","e","r">>, <<"j","w","t">>} :
        Contains(existing_title, word) /\ Contains(new_title, word)

\* lines 188-189: existing_by_repo_title keeps the last milestone of a key
exact_match(existing, key) ==
    LET hits == {j \in 1..Len(existing) : repo_title_key(existing[j]) = key}
    IN IF hits = {} THEN 0 ELSE CHOOSE j \in hits : \A h \in hits : h <= j

\* lines 193-206: the first milestone of the repo with a similar title, 0 when
\* there is none, -1 when .lower() is called on a title that is None
RECURSIVE partial_match(_, _, _, _)
partial_match(existing, j, repo, title) ==
    IF j > Len(existing) THEN 0
    ELSE IF Get(existing[j].repo, <<>>) # repo THEN partial_match(existing, j + 1, repo, title)
    ELSE IF existing[j].title = NONE THEN -1
    ELSE IF similar_titles(Lower(Get(existing[j].title, <<>>)), Lower(title)) THEN j
    ELSE partial_match(existing, j + 1, repo, title)

\* lines 217-227: the fields of `new` that are set and differ replace the
\* existing ones
refreshed(existing, new) ==
    LET takes(f) == Truthy(new[f]) /\ GetNone(existing[f]) # new[f]
    IN [existing EXCEPT !.category = IF takes("category") THEN new.category ELSE @,
                        !.due = IF takes("due") THEN new.due ELSE @,
                        !.status = IF takes("status") THEN new.status ELSE @]

\* str(n) for n >= 0
RECURSIVE Decimal(_)
Decimal(n) == IF n < 10 THEN <<Digits[n + 1]>> ELSE Decimal(n \div 10) \o <<Digits[(n % 10) + 1]>>

\* f"{n:02d}"
TwoDigits(n) == IF n < 10 THEN <<"0">> \o Decimal(n) ELSE Decimal(n)

\* line 246: f"{repo.split('-')[0]}-{len(existing_milestones) + 1:02d}"
new_id(repo, len) == Split(repo, "-")[1] \o <<"-">> \o TwoDigits(len + 1)

\* lines 182-249 for one extracted milestone.  st.milestones is
\* existing_milestones; its first st.loaded_len entries are the ones the two
\* mappings of lines 169-180 were built from.
update_one(st, new, dry) ==
    LET indexed == SubSeq(st.milestones, 1, st.loaded_len)
        exact == exact_match(indexed, repo_title_key(new))
        found == IF exact # 0 THEN exact ELSE partial_match(indexed, 1, new.repo, new.title)
    IN IF found = -1 THEN [st EXCEPT !.raised = TRUE]
       ELSE IF found # 0
       THEN LET after == refreshed(st.milestones[found], new)
            IN [st EXCEPT !.milestones[found] = after,
                          !.count = IF after # st.milestones[found] THEN @ + 1 ELSE @]
       ELSE IF dry THEN st
       ELSE IF ~st.is_list THEN [st EXCEPT !.raised = TRUE]
       ELSE [st EXCEPT
                !.milestones = Append(@, [new EXCEPT !.id = new_id(new.repo, Len(st.milestones))]),
                !.count = @ + 1]

RECURSIVE update_all(_, _, _)
update_all(st, new_milestones, dry) ==
    IF st.raised \/ new_milestones = <<>> THEN st
    ELSE update_all(update_one(st, Head(new_milestones), dry), Tail(new_milestones), dry)

\* lines 160-251.  manifest.get('milestones', []) of a manifest without the key
\* is a list the manifest never sees; the object {} has no entries and no
\* append.
update_manifest_milestones(m, new_milestones, dry) ==
    LET existing == IF m.milestones \in {ABSENT_LIST, NOT_A_LIST} THEN <<>> ELSE m.milestones
        st == update_all([milestones |-> existing, loaded_len |-> Len(existing), count |-> 0,
                          raised |-> FALSE, is_list |-> m.milestones # NOT_A_LIST],
                         new_milestones, dry)
    IN [manifest |-> IF m.milestones \in {ABSENT_LIST, NOT_A_LIST} THEN m
                     ELSE [m EXCEPT !.milestones = st.milestones],
        count |-> st.count,
        raised |-> st.raised]

\* the README of a repository, NO_README when the file is not there
readme_of(readmes, name) == IF name \in DOMAIN readmes THEN readmes[name] ELSE NO_README

\* lines 266-271: the repositories to process
RECURSIVE named(_, _)
named(repos, name) ==
    IF repos = <<>> THEN <<>>
    ELSE (IF GetNone(Head(repos).name) = name THEN <<Head(repos)>> ELSE <<>>)
         \o named(Tail(repos), name)

\* lines 266-271 without the filter of line 268
repositories_to_sync_unfiltered(m, repo_arg) ==
    IF m.repositories \in {ABSENT_LIST, NOT_A_LIST} THEN <<>> ELSE m.repositories

repositories_to_sync(m, repo_arg) ==
    LET repos == IF m.repositories \in {ABSENT_LIST, NOT_A_LIST} THEN <<>> ELSE m.repositories
    IN IF Truthy(repo_arg) THEN named(repos, repo_arg) ELSE repos

\* lines 274-283
RECURSIVE all_milestones(_, _)
all_milestones(repos, readmes) ==
    IF repos = <<>> THEN <<>>
    ELSE LET repo_name == GetNone(Head(repos).name)
         IN (IF ~Truthy(repo_name) \/ repo_name \notin REPO_PATHS THEN <<>>
             ELSE extract_milestones_from_readme(readme_of(readmes, repo_name), repo_name))
            \o all_milestones(Tail(repos), readmes)

-----------------------------------------------------------------------------
(* rebuild_manifest_from_roadmaps.py: the ledger rebuilt from the READMEs  *)
(* Its parse_roadmap_table and extract_milestones_from_readme are those of  *)
(* sync_roadmaps_to_manifest.py line for line.                              *)

ML_FOUNDATIONS == <<"m","l","-","f","o","u","n","d","a","t","i","o","n","s">>
AI_CHAT_RAG == <<"a","i","-","c","h","a","t","-","r","a","g">>
FLUTTER_IAM == <<"f","l","u","t","t","e","r","-","i","a","m">>
API_SHOWCASE == <<"a","p","i","-","s","h","o","w","c","a","s","e">>
ROADMAP_REPO == <<"a","i","-","c","y","b","e","r","-","s","e","c","u","r","i","t","y","-","r","o","a","d","m","a","p">>

\* REPO_PATHS.items() in the order of lines 27-35
REPO_ORDER ==
    <<ML_FOUNDATIONS,
      <<"p","h","i","s","h","i","n","g","-","c","l","a","s","s","i","f","i","e","r">>,
      <<"s","e","c","u","r","e","-","a","i","-","a","p","i">>,
      AI_CHAT_RAG, FLUTTER_IAM, API_SHOWCASE, ROADMAP_REPO>>

\* lines 157-176 with every branch falling back to the bare number
generate_identifier_without_prefix(repo_name, index) == TwoDigits(index)

\* lines 157-176
generate_identifier(repo_name, index) ==
    (IF repo_name = ROADMAP_REPO THEN <<"a","i","-","c","y","b","e","r">>
     ELSE IF repo_name = ML_FOUNDATIONS THEN <<"m","l">>
     ELSE IF repo_name = <<"p","h","i","s","h","i","n","g","-","c","l","a","s","s","i","f","i","e","r">>
     THEN <<"p","h","i","s","h","i","n","g">>
     ELSE IF repo_name = <<"s","e","c","u","r","e","-","a","i","-","a","p","i">>
     THEN <<"s","e","c","u","r","e","-","a","i","-","a","p","i">>
     ELSE IF repo_name = AI_CHAT_RAG THEN <<"a","i","-","c","h","a","t">>
     ELSE IF repo_name = FLUTTER_IAM THEN <<"i","a","m">>
     ELSE IF repo_name = API_SHOWCASE THEN API_SHOWCASE
     ELSE repo_name)
    \o <<"-">> \o TwoDigits(index)

\* lines 186-189
RECURSIVE rebuild_all_milestones(_, _)
rebuild_all_milestones(order, readmes) ==
    IF order = <<>> THEN <<>>
    ELSE extract_milestones_from_readme(readme_of(readmes, Head(order)), Head(order))
         \o rebuild_all_milestones(Tail(order), readmes)

\* line 206 keyed by the title alone
milestone_key_title_only(title, due) == title

\* line 206: f"{title}|{due}"
milestone_key(title, due) == Str(title) \o <<"|">> \o Str(due)

\* lines 216-220: repo_counters after the increment
counted(repo_counters, repo) ==
    IF repo \in DOMAIN repo_counters
    THEN [repo_counters EXCEPT ![repo] = @ + 1]
    ELSE (repo :> 1) @@ repo_counters

\* lines 224-235
new_milestone(milestone, milestone_id) ==
    Milestone(milestone_id, Get(milestone.title, <<>>), Get(milestone.category, <<>>),
              Get(milestone.status, TODO), Get(milestone.due, <<>>),
              IF milestone.status = DONE THEN Get(milestone.due, <<>>) ELSE ABSENT,
              Get(milestone.repo, <<>>))

\* lines 200-242 for one extracted milestone; st holds new_milestones,
\* repo_counters, seen_milestones and the records the diagnostic was printed for
rebuild_one(st, milestone) ==
    LET repo == Get(milestone.repo, <<>>)
        key == milestone_key(Get(milestone.title, <<>>), Get(milestone.due, <<>>))
    IN IF key \in st.seen_milestones
       THEN [st EXCEPT !.skipped = Append(@, milestone)]
       ELSE LET counters == counted(st.repo_counters, repo)
            IN [st EXCEPT
                    !.seen_milestones = @ \cup {key},
                    !.repo_counters = counters,
                    !.new_milestones =
                        Append(@, new_milestone(milestone,
                                                generate_identifier(repo, counters[repo])))]

RECURSIVE rebuild_rest(_, _)
rebuild_rest(st, milestones) ==
    IF milestones = <<>> THEN st
    ELSE rebuild_rest(rebuild_one(st, Head(milestones)), Tail(milestones))

\* lines 196-242
rebuild_manifest_milestones(found) ==
    rebuild_rest([new_milestones |-> <<>>, repo_counters |-> <<>>,
                  seen_milestones |-> {}, skipped |-> <<>>], found)

-----------------------------------------------------------------------------
(* The ledgers the scripts are started on *)

PHISHING == <<"p","h","i","s","h","i","n","g","-","c","l","a","s","s","i","f","i","e","r">>
SECURE == <<"s","e","c","u","r","e","-","a","i","-","a","p","i">>
INFRA == <<"I","n","f","r","a">>
DOCS == <<"D","o","c","s">>
D1 == <<"1","5","/","0","3","/","2","0","2","4">>
D2 == <<"2","0","2","4","-","0","4","-","0","1">>
ID1 == <<"p","h","i","s","h","i","n","g","-","0","1">>
ID2 == <<"p","h","i","s","h","i","n","g","-","0","2">>
ID3 == <<"p","h","i","s","h","i","n","g","-","0","3">>

\* the titles of the ledgers
TitleDockerCICD == <<"D","o","c","k","e","r"," ","C","I","/","C","D"," ","s","e","t","u","p">>
TitleDockerCIShort == <<"D","o","c","k","e","r"," ","C","I">>
TitleDockerCI == <<"D","o","c","k","e","r"," ","C","I"," ","s","e","t","u","p">>
TitleScaffoldRepo == <<"S","c","a","f","f","o","l","d"," ","r","e","p","o">>
TitleRepoScaffolding == <<"R","e","p","o"," ","s","c","a","f","f","o","l","d","i","n","g">>
TitleSecureAPI == <<"S","e","c","u","r","e"," ","A","P","I"," ","i","n","t","e","g","r","a","t","i","o","n">>
TitleIntegrationSecureAPI == <<"I","n","t","e","g","r","a","t","i","o","n"," ","o","f"," ","s","e","c","u","r","e"," ","A","P","I">>
TitleJWTAuth == <<"J","W","T"," ","a","u","t","h">>
TitleAuthJWT == <<"A","u","t","h"," ","w","i","t","h"," ","J","W","T">>
TitleSetupAPI == <<"S","e","t","u","p"," ","A","P","I">>
TitleSetupHyphenApi == <<"s","e","t","u","p","-","a","p","i">>
TitleSetupApiLower == <<"s","e","t","u","p"," ","a","p","i">>
TitleScaffold == <<"s","c","a","f","f","o","l","d">>
TitleScaffoldDockerCI == <<"S","c","a","f","f","o","l","d"," ","r","e","p","o"," ","w","i","t","h"," ","D","o","c","k","e","r"," ","C","I">>
TitleJWTAuthDockerCI == <<"J","W","T"," ","a","u","t","h"," ","f","o","r"," ","D","o","c","k","e","r"," ","C","I">>

\* the ids of the records of one pool, by position
PoolIds ==
  << <<"p","h","i","s","h","i","n","g","-","0","1">>,
     <<"p","h","i","s","h","i","n","g","-","0","2">>,
     <<"p","h","i","s","h","i","n","g","-","0","3">>,
     <<"p","h","i","s","h","i","n","g","-","0","4">>,
     <<"p","h","i","s","h","i","n","g","-","0","5">>,
     <<"p","h","i","s","h","i","n","g","-","0","6">>,
     <<"p","h","i","s","h","i","n","g","-","0","7">>,
     <<"p","h","i","s","h","i","n","g","-","0","8">> >>

\* ids on both sides of the watermark and of the id pattern
SyncIds ==
  << <<"p","h","i","s","h","i","n","g","-","1","9">>,
     <<"p","h","i","s","h","i","n","g","-","2","0">>,
     <<"p","h","i","s","h","i","n","g","-","2","1">>,
     <<"P","h","i","s","h","i","n","g","-","2","1">>,
     <<"s","e","c","u","r","e","-","a","i","-","a","p","i","-","2","5">>,
     <<"m","l","-","1","0","0">> >>

Repository(name, url, description, short_description, status, target, topics) ==
    [name |-> name, url |-> url, description |-> description,
     short_description |-> short_description, status |-> status, target |-> target,
     topics |-> topics]

URL == <<"h","t","t","p","s",":","/","/","x">>
TEXT == <<"x">>
ACTIVE == <<"a","c","t","i","v","e">>
ML == <<"m","l">>

\* a repository entry that passes every check
Declared(name) == Repository(name, URL, TEXT, TEXT, ACTIVE, D2, <<ML>>)

\* manifest.json apart from its milestones: a ledger that passes every check
BaseManifest ==
    [updated |-> D1,
     progress |-> [k \in {PROGRESS_KEYS[n] : n \in 1..Len(PROGRESS_KEYS)} |-> Progress(TRUE, 50)],
     focus |-> [security_prep_start |-> D2],
     repositories |-> <<Declared(PHISHING), Declared(SECURE)>>,
     milestones |-> <<>>,
     next_milestone |-> ABSENT_OBJECT]

\* a complete milestone of repo with the i-th id
Authored(i, title, repo) == Milestone(PoolIds[i], title, INFRA, DONE, D1, D1, repo)

\* two titles for each entry of the synonym table, two entries at a time
SynonymPool ==
    {Authored(1, TitleScaffoldRepo, PHISHING), Authored(2, TitleRepoScaffolding, PHISHING),
     Authored(3, TitleSecureAPI, PHISHING), Authored(4, TitleIntegrationSecureAPI, PHISHING)}

SynonymPoolMore ==
    {Authored(5, TitleDockerCICD, PHISHING), Authored(6, TitleDockerCI, PHISHING),
     Authored(7, TitleJWTAuth, PHISHING), Authored(8, TitleAuthJWT, PHISHING)}

\* titles that differ in case, ' ' and '-', in two repos
TitlePool ==
    {Authored(1, TitleSetupAPI, PHISHING), Authored(2, TitleSetupHyphenApi, PHISHING),
     Authored(3, TitleSetupApiLower, PHISHING), Authored(4, TitleScaffold, PHISHING),
     Authored(5, TitleSetupAPI, SECURE), Authored(6, TitleScaffold, SECURE)}

\* titles that contain the keywords of more than one entry
OverlapPool ==
    {Authored(1, TitleScaffoldDockerCI, PHISHING), Authored(2, TitleDockerCI, PHISHING),
     Authored(3, TitleScaffoldRepo, PHISHING), Authored(4, TitleJWTAuthDockerCI, PHISHING)}

\* milestones of one group ('docker' and 'ci') whose field f ranges over vals
FieldPool(f, vals, last) ==
    {[Milestone(ABSENT, TitleDockerCICD, ABSENT, ABSENT, ABSENT, ABSENT, PHISHING)
         EXCEPT ![f] = v] : v \in vals}
    \cup {[Milestone(ABSENT, TitleDockerCI, ABSENT, ABSENT, ABSENT, ABSENT, PHISHING)
              EXCEPT ![f] = last]}

\* milestones of one group whose fields vary together
JointPool ==
    {Milestone(ABSENT, TitleDockerCICD, ABSENT, TODO, <<>>, ABSENT, PHISHING),
     Milestone(ID1, TitleDockerCI, NONE, TODO, D1, ABSENT, PHISHING),
     Milestone(ID2, TitleDockerCI, INFRA, DONE, <<>>, D2, PHISHING),
     Milestone(ID3, TitleDockerCICD, DOCS, IN_PROGRESS, D2, D1, PHISHING)}

\* milestones that differ in id only
SyncPool ==
    {Milestone(SyncIds[i], TitleSetupAPI, INFRA, DONE, D1, D1, PHISHING) : i \in 1..Len(SyncIds)}
    \cup {Milestone(ABSENT, TitleSetupAPI, INFRA, DONE, D1, D1, PHISHING)}

\* pools whose ledgers may hold a record more than once
MilestonePools ==
    {SynonymPool, SynonymPoolMore, OverlapPool, JointPool,
     FieldPool("category", {ABSENT, NONE, INFRA}, DOCS),
     FieldPool("status", {ABSENT, TODO, DONE}, IN_PROGRESS),
     FieldPool("due", {<<>>, D1, TODO}, D2),
     FieldPool("date", {ABSENT, D1, TODO}, D2),
     FieldPool("id", {ABSENT, ID1, ID2}, ID3)}

\* the sequences over S of length at most n that hold no element twice
DistinctSeqsUpTo(S, n) ==
    {seq \in SeqsUpTo(S, n) : \A i, j \in 1..Len(seq) : i # j => seq[i] # seq[j]}

Ledgers ==
    UNION {SeqsUpTo(P, MaxLen) : P \in MilestonePools}
    \cup DistinctSeqsUpTo(TitlePool, MaxLen)
    \cup DistinctSeqsUpTo(SyncPool, MaxLen)

-----------------------------------------------------------------------------
(* manifest.json on disk *)

\* what json.load makes of a file whose write was cut short: nothing
Truncated ==
    [BaseManifest EXCEPT !.updated = ABSENT, !.repositories = ABSENT_LIST, !.milestones = <<>>]

\* load_manifest: the file parses exactly when no write was cut short
load_ok == disk_ok

\* save_manifest(new): open(..., 'w') truncates the file, json.dump fills it;
\* ok says whether the dump ran to its end
save_manifest(new, ok) ==
    /\ saved' = IF ok THEN "ok" ELSE "failed"
    /\ disk_ok' = ok
    /\ manifest' = IF ok THEN new ELSE Truncated

no_save ==
    /\ saved' = "none"
    /\ UNCHANGED <<manifest, disk_ok>>

\* load_manifest failed: the script prints the error and calls sys.exit(1)
load_failed(name, dry) ==
    /\ ~load_ok
    /\ op' = name
    /\ dry_run' = dry
    /\ exit_code' = 1
    /\ loaded' = <<>>
    /\ cleaned' = <<>>
    /\ removed' = <<>>
    /\ no_save

-----------------------------------------------------------------------------
(* The scripts *)

\* cleanup_duplicate_milestones.py main()
CleanupMain(dry) ==
    /\ load_ok
    /\ LET milestones == manifest.milestones
           cleaned_milestones == cleanup_duplicates(milestones)
       IN /\ op' = "cleanup"
          /\ dry_run' = dry
          /\ loaded' = milestones
          /\ cleaned' = cleaned_milestones
          /\ removed' = <<>>
          /\ exit_code' = 0
          /\ IF ~dry /\ Len(cleaned_milestones) < Len(milestones)
             THEN \E ok \in BOOLEAN :
                     save_manifest([manifest EXCEPT !.milestones = cleaned_milestones], ok)
             ELSE no_save
    /\ UNCHANGED <<errors, warnings, raised, readme, rebuilt, skipped, status_text, status_norm, extracted, updated_count, only_repo, pipeline_vars>>

CleanupLoadFails(dry) ==
    /\ load_failed("cleanup", dry)
    /\ UNCHANGED <<errors, warnings, raised, readme, rebuilt, skipped, status_text, status_norm, extracted, updated_count, only_repo, pipeline_vars>>

\* remove_sync_duplicates.py main()
RemoveSyncMain ==
    /\ load_ok
    /\ LET milestones == manifest.milestones
       IN /\ op' = "remove_sync"
          /\ dry_run' = FALSE
          /\ loaded' = milestones
          /\ cleaned' = original_milestones(milestones)
          /\ removed' = removed_milestones(milestones)
          /\ exit_code' = 0
          /\ \E ok \in BOOLEAN :
                save_manifest([manifest EXCEPT !.milestones = original_milestones(milestones)], ok)
    /\ UNCHANGED <<errors, warnings, raised, readme, rebuilt, skipped, status_text, status_norm, extracted, updated_count, only_repo, pipeline_vars>>

RemoveSyncLoadFails ==
    /\ load_failed("remove_sync", FALSE)
    /\ UNCHANGED <<errors, warnings, raised, readme, rebuilt, skipped, status_text, status_norm, extracted, updated_count, only_repo, pipeline_vars>>

\* the state before any script ran, with manifest.json holding m
ScriptsIdle(m, ok, readmes) ==
    /\ manifest = m
    /\ disk_ok = ok
    /\ op = "none"
    /\ dry_run = FALSE
    /\ loaded = <<>>
    /\ cleaned = <<>>
    /\ removed = <<>>
    /\ saved = "none"
    /\ exit_code = 0
    /\ errors = <<>>
    /\ warnings = <<>>
    /\ raised = FALSE
    /\ readme = readmes
    /\ extracted = <<>>
    /\ updated_count = 0
    /\ only_repo = NONE
    /\ rebuilt = <<>>
    /\ skipped = <<>>
    /\ step = 0
    /\ started = <<>>
    /\ results = <<>>
    /\ skip_hooks = FALSE

StartOn(m, ok, readmes) ==
    /\ ScriptsIdle(m, ok, readmes)
    /\ status_text = <<>>
    /\ status_norm = NONE

Init == \E ms \in Ledgers : StartOn([BaseManifest EXCEPT !.milestones = ms], TRUE, <<>>)

Next ==
    \/ \E dry \in BOOLEAN : CleanupMain(dry)
    \/ \E dry \in BOOLEAN : CleanupLoadFails(dry)
    \/ RemoveSyncMain
    \/ RemoveSyncLoadFails

Spec == Init /\ [][Next]_vars

-----------------------------------------------------------------------------
(* The ledgers validate_manifest.py is started on *)

GHOST == <<"g","h","o","s","t","-","r","e","p","o">>
DONE_CAPITALISED == <<"D","o","n","e">>
BOGUS == <<"b","o","g","u","s">>
D_SHORT == <<"1","/","3","/","2","0","2","4">>
D_LEAP == <<"2","0","2","4","-","0","2","-","2","9">>
D_MONTH13 == <<"2","0","2","4","-","1","3","-","0","1">>
D_FEB31 == <<"3","1","/","0","2","/","2","0","2","4">>
D_WORDS == <<"M","a","r","c","h"," ","2","0","2","4">>
D_DMY_HYPHENS == <<"1","5","-","0","3","-","2","0","2","4">>
TitleSetupApiPadded == <<" "," ","s","e","t","u","p"," ","a","p","i"," ">>

\* the titles of the records of one ledger, by position
PositionTitles ==
    <<TitleSetupAPI, TitleDockerCI, TitleJWTAuth, TitleScaffoldRepo, TitleSecureAPI,
      TitleAuthJWT, TitleDockerCICD, TitleScaffold>>

\* the i-th record gets the i-th title, and the i-th id unless its id is fixed
RECURSIVE Positioned(_, _, _)
Positioned(payloads, i, with_ids) ==
    IF payloads = <<>> THEN <<>>
    ELSE <<[Head(payloads) EXCEPT !.title = PositionTitles[i],
                                  !.id = IF with_ids THEN PoolIds[i] ELSE @]>>
         \o Positioned(Tail(payloads), i + 1, with_ids)

\* ids that are missing, empty and repeated; statuses in and out of the enum
IdStatusPool ==
    {Milestone(ID1, <<>>, INFRA, TODO, D1, ABSENT, PHISHING),
     Milestone(ID2, <<>>, INFRA, DONE, D1, D1, PHISHING),
     Milestone(ID1, <<>>, INFRA, DONE_CAPITALISED, D1, D1, PHISHING),
     Milestone(ABSENT, <<>>, INFRA, IN_PROGRESS, D1, ABSENT, PHISHING),
     Milestone(ID2, <<>>, INFRA, BOGUS, D1, ABSENT, PHISHING),
     Milestone(<<>>, <<>>, INFRA, PLANNED, D1, ABSENT, PHISHING),
     Milestone(ID3, <<>>, INFRA, ABSENT, D1, ABSENT, PHISHING)}

\* due and date missing, empty, in either format and in none
DatePool ==
    {Milestone(ABSENT, <<>>, INFRA, TODO, due_date[1], due_date[2], PHISHING) :
        due_date \in {<<D1, ABSENT>>, <<ABSENT, D2>>, <<ABSENT, ABSENT>>, <<<<>>, D_LEAP>>,
                      <<D_MONTH13, ABSENT>>, <<D_SHORT, D_WORDS>>, <<D_FEB31, D2>>,
                      <<D_DMY_HYPHENS, NONE>>}}

\* repo missing, None, empty, declared and not declared
RepoRefPool ==
    {Milestone(ABSENT, <<>>, INFRA, TODO, D1, ABSENT, repo) :
        repo \in {ABSENT, NONE, <<>>, PHISHING, SECURE, GHOST}}

\* titles that differ in case and padding only, with and without a repo
TriplePool ==
    {Milestone(PoolIds[i], title_repo[1], INFRA, TODO, D1, ABSENT, title_repo[2]) :
        i \in {1, 2},
        title_repo \in {<<TitleSetupAPI, PHISHING>>, <<TitleSetupApiPadded, PHISHING>>,
                        <<TitleSetupAPI, ABSENT>>}}

LONG_TOPIC == [i \in 1..31 |-> "t"]

\* repository entries each of which fails one check, draws one warning or raises
RepositoryPool ==
    {Declared(PHISHING), Declared(SECURE), Declared(ABSENT),
     [Declared(PHISHING) EXCEPT !.url = GHOST],
     [Declared(PHISHING) EXCEPT !.description = <<>>],
     [Declared(PHISHING) EXCEPT !.short_description = ABSENT],
     [Declared(PHISHING) EXCEPT !.status = BOGUS],
     [Declared(PHISHING) EXCEPT !.status = DONE_CAPITALISED, !.target = D_WORDS],
     [Declared(PHISHING) EXCEPT !.topics = [i \in 1..9 |-> ML]],
     [Declared(PHISHING) EXCEPT !.topics = <<ML, LONG_TOPIC>>],
     [Declared(PHISHING) EXCEPT !.topics = <<LONG_TOPIC, NOT_A_STRING, LONG_TOPIC>>],
     [Declared(PHISHING) EXCEPT !.topics = TOPICS_NOT_A_LIST],
     [Declared(PHISHING) EXCEPT !.topics = TOPICS_NONE],
     [Declared(PHISHING) EXCEPT !.topics = TOPICS_ABSENT]}

\* one milestone that passes every check, of repo
Valid(i, repo) == Milestone(PoolIds[i], PositionTitles[i], INFRA, TODO, D1, ABSENT, repo)

\* ledgers whose milestones vary
MilestoneLedgers ==
    {[BaseManifest EXCEPT !.milestones = Positioned(ms, 1, FALSE)] :
        ms \in SeqsUpTo(IdStatusPool, MaxLen)}
    \cup {[BaseManifest EXCEPT !.milestones = Positioned(ms, 1, TRUE)] :
        ms \in SeqsUpTo(DatePool, MaxLen)}
    \cup {[BaseManifest EXCEPT !.milestones = Positioned(ms, 1, TRUE), !.repositories = repos] :
        ms \in SeqsUpTo(RepoRefPool, MaxLen),
        repos \in {<<Declared(PHISHING), Declared(SECURE)>>, <<Declared(PHISHING)>>}}
    \cup {[BaseManifest EXCEPT !.milestones = ms] : ms \in SeqsUpTo(TriplePool, MaxLen)}

\* ledgers whose repositories and top-level keys vary
TopLevelLedgers ==
    {[BaseManifest EXCEPT !.repositories = repos, !.milestones = ms] :
        repos \in SeqsUpTo(RepositoryPool, 2) \cup {ABSENT_LIST, NOT_A_LIST},
        ms \in {<<Valid(1, PHISHING)>>, <<Valid(1, PHISHING), Valid(2, GHOST)>>,
                <<[Valid(1, PHISHING) EXCEPT !.title = NOT_A_STRING], Valid(2, GHOST)>>}}
    \cup {[BaseManifest EXCEPT !.updated = updated,
                               !.progress["learning"] = learning,
                               !.focus.security_prep_start = sp,
                               !.milestones = ms,
                               !.next_milestone = nm] :
        updated \in {D1, ABSENT, D_WORDS},
        learning \in {Progress(TRUE, 100), Progress(TRUE, 101), Progress(FALSE, 0)},
        sp \in {ABSENT, D_MONTH13},
        ms \in {<<Valid(1, PHISHING)>>, NOT_A_LIST, ABSENT_LIST},
        nm \in {ABSENT_OBJECT, NULL_OBJECT, [id |-> PoolIds[1], due |-> D2], [id |-> PoolIds[2], due |-> ABSENT],
                [id |-> ABSENT, due |-> D_FEB31]}}

\* validate_manifest.py main()
ValidateMain ==
    /\ load_ok
    /\ LET v == validate(manifest)
       IN /\ op' = "validate"
          /\ errors' = v.errors
          /\ warnings' = v.warnings
          /\ raised' = v.raised
          /\ exit_code' = validate_exit(v)
    /\ UNCHANGED <<manifest, disk_ok, dry_run, loaded, cleaned, removed, saved, readme, rebuilt, skipped, status_text, status_norm, extracted, updated_count, only_repo, pipeline_vars>>

\* manifest.json is missing or does not parse: sys.exit(2)
ValidateLoadFails ==
    /\ ~load_ok
    /\ op' = "validate"
    /\ exit_code' = 2
    /\ errors' = <<>>
    /\ warnings' = <<>>
    /\ raised' = FALSE
    /\ UNCHANGED <<manifest, disk_ok, dry_run, loaded, cleaned, removed, saved, readme, rebuilt, skipped, status_text, status_norm, extracted, updated_count, only_repo, pipeline_vars>>

InitValidate ==
    \/ \E m \in MilestoneLedgers \cup TopLevelLedgers : StartOn(m, TRUE, <<>>)
    \/ StartOn(Truncated, FALSE, <<>>)

NextValidate ==
    \/ ValidateMain
    \/ ValidateLoadFails

SpecValidate == InitValidate /\ [][NextValidate]_vars

-----------------------------------------------------------------------------
(* sync_roadmaps_to_manifest.py main() and the READMEs it reads *)

\* line 297 with the dry-run flag left out
sync_saves_whenever_counted(dry, count) == count > 0

\* line 297: if not args.dry_run and updated_count > 0
sync_saves(dry, count) == ~dry /\ count > 0

SyncMain(dry, repo_arg) ==
    /\ load_ok
    /\ LET repos == repositories_to_sync(manifest, repo_arg)
           found == all_milestones(repos, readme)
           result == update_manifest_milestones(manifest, found, dry)
       IN /\ op' = "sync"
          /\ dry_run' = dry
          /\ only_repo' = repo_arg
          /\ loaded' = manifest.milestones
          /\ IF Truthy(repo_arg) /\ repos = <<>>
             THEN \* lines 269-271: sys.exit(1)
                  /\ exit_code' = 1
                  /\ extracted' = <<>>
                  /\ updated_count' = 0
                  /\ raised' = FALSE
                  /\ no_save
             ELSE IF found = <<>>
             THEN \* lines 285-287
                  /\ exit_code' = 0
                  /\ extracted' = <<>>
                  /\ updated_count' = 0
                  /\ raised' = FALSE
                  /\ no_save
             ELSE /\ extracted' = found
                  /\ updated_count' = result.count
                  /\ raised' = result.raised
                  /\ exit_code' = IF result.raised THEN 1 ELSE 0
                  /\ IF ~result.raised /\ sync_saves(dry, result.count)
                     THEN \E ok \in BOOLEAN : save_manifest(result.manifest, ok)
                     ELSE no_save
    /\ UNCHANGED <<cleaned, removed, errors, warnings, readme, rebuilt, skipped, status_text, status_norm, pipeline_vars>>

\* load_manifest fails before either argument is looked at
SyncLoadFails ==
    /\ load_failed("sync", FALSE)
    /\ only_repo' = NONE
    /\ extracted' = <<>>
    /\ updated_count' = 0
    /\ raised' = FALSE
    /\ UNCHANGED <<errors, warnings, readme, rebuilt, skipped, status_text, status_norm, pipeline_vars>>

HeadingLine == HEADING
HeadingLinePadded == HEADING \o <<" ", " ">>
TitleLine == <<"#"," ","P","h","i","s","h","i","n","g">>
Header3 == <<"|"," ","M","i","l","e","s","t","o","n","e"," ","|"," ","D","a","t","e"," ","|"," ","S","t","a","t","u","s"," ","|">>
Header4 == <<"|"," ","M","i","l","e","s","t","o","n","e"," ","|"," ","C","a","t","e","g","o","r","y"," ","|"," ","D","a","t","e"," ","|"," ","S","t","a","t","u","s"," ","|">>
Separator == <<"|","-","-","-","|","-","-","-","|","-","-","-","|">>
Rule == <<"-","-","-">>
NextHeading == <<"#","#"," ","N","e","x","t">>
NextHeadingTight == <<"#","#","N","e","x","t">>
Row3Docker == <<"|"," ","D","o","c","k","e","r"," ","C","I"," ","|"," ","1","5","/","0","3","/","2","0","2","4"," ","|"," ",CHECK," ","|">>
Row4Docker == <<"|"," ","D","o","c","k","e","r"," ","C","I","/","C","D"," ","|"," ","I","n","f","r","a"," ","|"," ","1","5","/","0","3","/","2","0","2","4"," ","|"," ",HOURGLASS," ","P","e","n","d","i","n","g"," ","|">>
Row4JWT == <<"|"," ","J","W","T"," ","a","u","t","h"," ","|"," ","D","o","c","s"," ","|"," ","2","0","2","4","-","0","4","-","0","1"," ","|"," ","I","n"," ","P","r","o","g","r","e","s","s"," ","|">>
Row3Setup == <<"|"," ","S","e","t","u","p"," ","A","P","I"," ","|"," ","2","0","2","4","-","0","4","-","0","1"," ","|"," ","S","o","o","n"," ","|">>
Row2 == <<"|"," ","L","a","t","e","r"," ","|"," ","2","0","2","5"," ","|">>
Row5 == <<"|"," ","A"," ","|"," ","B"," ","|"," ","C"," ","|"," ","D"," ","|"," ","E"," ","|">>

\* rows of three and of four cells
TableRows == {Row3Docker, Row4Docker}

\* table bodies with a row that is skipped or that raises
OddBodies ==
    {<<Row2>>, <<Row5>>, <<Row3Docker, Row5>>, <<Row5, Row3Docker>>, <<Row2, Row4JWT>>}
\* table bodies of the READMEs whose frame is what varies
DockerBodies == {<<>>, <<Row3Docker>>, <<Row4Docker, Row3Docker>>}

\* READMEs around a table body: the heading first or after a title, with and
\* without a blank line, closed by a rule or a heading or by the end of the
\* file; one under the bare heading, one whose table has no header row
Plain(body) == <<HeadingLine, Header4, Separator>> \o body
Titled(body) ==
    <<TitleLine, HeadingLinePadded, <<>>, Header3, Separator>> \o body
        \o <<NextHeading, Header3, Row3Setup>>
Bare(body) == <<HEADING_BARE, Header4>> \o body \o <<<<>>, NextHeadingTight, Row4JWT>>
Headerless(body) == <<HeadingLine, Separator>> \o body \o <<Rule>>

ReadmePool ==
    {Plain(body) : body \in SeqsUpTo(TableRows, MaxRows) \cup OddBodies}
    \cup {Titled(body) : body \in DockerBodies}
    \cup {Bare(body) : body \in DockerBodies}
    \cup {Headerless(body) : body \in DockerBodies}

SecureReadme == <<HeadingLine, Header4, Separator, Row4JWT>>

\* the READMEs of the workspace: secure-ai-api has one in some
ReadmeSets ==
    {(PHISHING :> doc) : doc \in ReadmePool}
    \cup {(PHISHING :> Plain(body)) @@ (SECURE :> SecureReadme) :
            body \in DockerBodies}

\* the ledgers a sync starts on: empty, and with authored records that the
\* rows match exactly, by a shared word, or not at all
\* a ledger whose ids are distinct and do not start at 01
SparseLedger == <<Milestone(ID2, TitleScaffoldRepo, INFRA, TODO, D1, ABSENT, PHISHING)>>

SyncLedgers ==
    {<<>>,
     <<Milestone(ID1, TitleDockerCIShort, INFRA, TODO, D1, ABSENT, PHISHING)>>,
     <<Milestone(ID1, TitleJWTAuthDockerCI, NONE, TODO, D2, ABSENT, PHISHING),
       Milestone(ID2, TitleJWTAuth, DOCS, DONE, D2, D2, SECURE)>>,
     SparseLedger}

\* the READMEs a ledger that holds records is started on: rows that match a
\* record exactly, by a shared word, and not at all
MatchingBodies == DockerBodies \cup {<<Row4Docker>>, <<Row3Setup>>, <<Row3Setup, Row3Docker>>}

RepoArgs == {NONE, PHISHING, SECURE, GHOST}

InitSync ==
    \E ms \in SyncLedgers, readmes \in ReadmeSets :
        /\ ms # <<>> => readmes[PHISHING] \in {Plain(body) : body \in MatchingBodies}
        /\ ms = SparseLedger => readmes = (PHISHING :> Plain(<<Row3Docker>>))
        /\ StartOn([BaseManifest EXCEPT !.milestones = ms], TRUE, readmes)

NextSync ==
    \/ \E dry \in BOOLEAN, repo_arg \in RepoArgs : SyncMain(dry, repo_arg)
    \/ SyncLoadFails
    \/ \E dry \in BOOLEAN : CleanupMain(dry)
    \/ \E dry \in BOOLEAN : CleanupLoadFails(dry)

SpecSync == InitSync /\ [][NextSync]_vars

-----------------------------------------------------------------------------
(* rebuild_manifest_from_roadmaps.py main() and the READMEs it reads *)

RebuildMain(dry) ==
    /\ load_ok
    /\ LET found == rebuild_all_milestones(REPO_ORDER, readme)
           result == rebuild_manifest_milestones(found)
       IN /\ op' = "rebuild"
          /\ dry_run' = dry
          /\ loaded' = manifest.milestones
          /\ extracted' = found
          /\ exit_code' = 0
          /\ IF found = <<>>
             THEN \* lines 191-193
                  /\ rebuilt' = <<>>
                  /\ skipped' = <<>>
                  /\ no_save
             ELSE /\ rebuilt' = result.new_milestones
                  /\ skipped' = result.skipped
                  /\ IF ~dry /\ Len(result.new_milestones) > 0
                     THEN \E ok \in BOOLEAN :
                             save_manifest([manifest EXCEPT !.milestones = result.new_milestones], ok)
                     ELSE no_save
    /\ UNCHANGED <<cleaned, removed, errors, warnings, raised, readme, updated_count,
                   only_repo, status_text, status_norm, pipeline_vars>>

RebuildLoadFails(dry) ==
    /\ load_failed("rebuild", dry)
    /\ extracted' = <<>>
    /\ rebuilt' = <<>>
    /\ skipped' = <<>>
    /\ UNCHANGED <<errors, warnings, raised, readme, updated_count, only_repo,
                   status_text, status_norm, pipeline_vars>>

Row4DockerShort == <<"|"," ","D","o","c","k","e","r"," ","C","I"," ","|"," ","I","n","f","r","a"," ","|"," ","1","5","/","0","3","/","2","0","2","4"," ","|"," ","T","o","d","o"," ","|">>
Row3DockerLater == <<"|"," ","D","o","c","k","e","r"," ","C","I"," ","|"," ","2","0","2","4","-","0","4","-","0","1"," ","|"," ","P","l","a","n","n","e","d"," ","|">>

RowDashes == <<"|"," ","P","h","a","s","e"," ","o","n","e"," ","-","-","-"," ","s","e","t","u","p"," ","|"," ","2","0","2","4","-","0","4","-","0","1"," ","|"," ","T","o","d","o"," ","|">>
RowMilestoneWord == <<"|"," ","M","i","l","e","s","t","o","n","e"," ","r","e","v","i","e","w"," ","|"," ","D","o","c","s"," ","|"," ","2","0","2","4","-","0","4","-","0","1"," ","|"," ","D","o","n","e"," ","|">>
RowCategoryWord == <<"|"," ","C","a","t","e","g","o","r","y"," ","c","l","e","a","n","u","p"," ","|"," ","2","0","2","4","-","0","4","-","0","1"," ","|"," ","T","o","d","o"," ","|">>

\* table bodies with a data row whose text holds '---' or a column name
WordyBodies ==
    {<<RowDashes>>, <<RowMilestoneWord, Row3Docker>>, <<Row3Docker, RowCategoryWord>>}

\* rows that share the title and the date, the title alone, and neither
RebuildRows == {Row3Docker, Row4DockerShort, Row3DockerLater, Row3Setup}

\* the README of secure-ai-api: none, and tables that repeat rows of the
\* other README, hold a row of their own or raise
SecureBodies == {<<Row3Docker>>, <<Row4JWT, Row3Docker>>, <<Row5>>}

\* the READMEs of the workspace; ml-foundations, the first repository that
\* is read, has one in some
RebuildReadmeSets ==
    {(PHISHING :> Plain(body)) : body \in SeqsUpTo(RebuildRows, MaxRows)}
    \cup {(PHISHING :> Plain(body)) @@ (SECURE :> Plain(secure)) :
            body \in SeqsUpTo(RebuildRows, MaxRows), secure \in SecureBodies}
    \cup {(PHISHING :> Plain(body)) @@ (ML_FOUNDATIONS :> Titled(<<Row3Docker>>)) :
            body \in SeqsUpTo(RebuildRows, MaxRows)}
    \cup {(PHISHING :> Plain(body)) : body \in WordyBodies}

\* the ledgers a rebuild starts on
RebuildLedgers ==
    {<<>>, <<Milestone(ID3, TitleJWTAuth, DOCS, DONE, D2, D2, SECURE)>>}

InitRebuild ==
    \E ms \in RebuildLedgers, readmes \in RebuildReadmeSets :
        StartOn([BaseManifest EXCEPT !.milestones = ms], TRUE, readmes)

NextRebuild ==
    \/ \E dry \in BOOLEAN : RebuildMain(dry)
    \/ \E dry \in BOOLEAN : RebuildLoadFails(dry)

SpecRebuild == InitRebuild /\ [][NextRebuild]_vars

-----------------------------------------------------------------------------
(* The three scripts that take --dry-run, on one workspace *)

\* ledgers on which a real run of each script would write: records that one
\* group absorbs, records the rows of the READMEs update, and none
DryRunLedgers ==
    {<<>>,
     <<Milestone(ID1, TitleDockerCIShort, INFRA, TODO, D1, ABSENT, PHISHING)>>,
     <<Authored(1, TitleDockerCICD, PHISHING), Authored(2, TitleDockerCI, PHISHING)>>}

DryRunReadmeSets == {(PHISHING :> Plain(body)) : body \in DockerBodies}

InitDryRun ==
    \E ms \in DryRunLedgers, readmes \in DryRunReadmeSets :
        StartOn([BaseManifest EXCEPT !.milestones = ms], TRUE, readmes)

NextDryRun ==
    \/ \E dry \in BOOLEAN, repo_arg \in RepoArgs : SyncMain(dry, repo_arg)
    \/ SyncLoadFails
    \/ \E dry \in BOOLEAN : CleanupMain(dry)
    \/ \E dry \in BOOLEAN : CleanupLoadFails(dry)
    \/ \E dry \in BOOLEAN : RebuildMain(dry)
    \/ \E dry \in BOOLEAN : RebuildLoadFails(dry)

SpecDryRun == InitDryRun /\ [][NextDryRun]_vars

-----------------------------------------------------------------------------
(* The status cell of a table row, lines 124-133 of parse_roadmap_table *)

\* most words of a status cell
MaxWords == 2

\* the words the two parsers look for, and three they do not
StatusWords ==
    {<<CHECK>>, <<"D","o","n","e">>, <<HOURGLASS>>, <<"P","e","n","d","i","n","g">>,
     <<"I","n"," ","P","r","o","g","r","e","s","s">>, <<"P","l","a","n","n","e","d">>,
     <<"T","o","d","o">>, <<"d","o","n","e">>, <<"S","o","o","n">>}

\* ' '.join(words)
RECURSIVE Joined(_)
Joined(words) ==
    IF Len(words) = 1 THEN words[1] ELSE words[1] \o <<" ">> \o Joined(Tail(words))

StatusTexts == {Joined(words) : words \in SeqsUpTo(StatusWords, MaxWords) \ {<<>>}}

\* lines 124-133 applied to the status cell
NormalizeStatus ==
    /\ status_norm = NONE
    /\ status_norm' = normalize_status(status_text)
    /\ UNCHANGED <<manifest, disk_ok, op, dry_run, loaded, cleaned, removed, saved, exit_code,
                   errors, warnings, raised, readme, extracted, updated_count, only_repo,
                   rebuilt, skipped, status_text, pipeline_vars>>

InitStatus ==
    /\ ScriptsIdle(BaseManifest, TRUE, <<>>)
    /\ status_text \in StatusTexts
    /\ status_norm = NONE

NextStatus == NormalizeStatus

SpecStatus == InitStatus /\ [][NextStatus]_vars

-----------------------------------------------------------------------------
(* standardize_readmes.py: the roadmap table written into each README      *)

EM_DASH == "<em dash>"

\* strftime("%d/%m/%Y") of the date strptime read from the three fields
strftime_dmy(day, month, year) ==
    TwoDigits(ParseInt(LStrip(day))) \o <<"/">> \o TwoDigits(ParseInt(month)) \o <<"/">> \o year

\* lines 74-83
format_date(date_str) ==
    IF ~Truthy(date_str) THEN <<EM_DASH>>
    ELSE IF Contains(date_str, <<"/">>)
    THEN IF strptime_ok(date_str, "%d/%m/%Y")
         THEN LET parts == Split(date_str, "/") IN strftime_dmy(parts[1], parts[2], parts[3])
         ELSE date_str
    ELSE IF strptime_ok(date_str, "%Y-%m-%d")
         THEN LET parts == Split(date_str, "-") IN strftime_dmy(parts[3], parts[2], parts[1])
         ELSE date_str

\* line 548
status_icon(status) ==
    IF status = DONE THEN <<CHECK," ","D","o","n","e">>
    ELSE IF status = IN_PROGRESS THEN <<HOURGLASS," ","I","n"," ","P","r","o","g","r","e","s","s">>
    ELSE <<HOURGLASS," ","P","l","a","n","n","e","d">>

\* lines 55-58
get_repo_milestones(m, repo_name) ==
    SelectSeq(milestones_listed(m), LAMBDA x : x.repo = repo_name)

\* line 549
table_row(milestone) ==
    <<"|"," ">> \o Str(Get(milestone.title, <<>>))
       \o <<" ","|"," ">> \o Str(Get(milestone.category, <<>>))
       \o <<" ","|"," ">> \o format_date(Get(milestone.due, <<>>))
       \o <<" ","|"," ">> \o status_icon(milestone.status)
       \o <<" ","|">>

TABLE_HEADER == <<"|"," ","M","i","l","e","s","t","o","n","e"," "," "," "," "," "," "," "," "," "," "," "," "," "," "," "," "," "," "," "," ","|"," ","C","a","t","e","g","o","r","y"," "," "," "," "," "," "," "," "," "," "," "," "," "," ","|"," ","T","a","r","g","e","t"," ","D","a","t","e"," ","|"," ","S","t","a","t","u","s"," "," "," "," "," ","|">>
TABLE_SEPARATOR == <<"|"," ","-","-","-","-","-","-","-","-","-","-","-","-","-","-","-","-","-","-","-","-","-","-","-","-","-","-","-","-"," ","|"," ","-","-","-","-","-","-","-","-","-","-","-","-","-","-","-","-","-","-","-","-","-"," ","|"," ","-","-","-","-","-","-","-","-","-","-","-"," ","|"," ","-","-","-","-","-","-","-","-","-","-"," ","|">>
STATUS_HEADING == <<"#","#"," ","S","t","a","t","u","s">>
LICENSE_HEADING == <<"#","#"," ","L","i","c","e","n","s","e">>

\* lines 541-549, line by line
roadmap_table(milestones) ==
    IF milestones = <<>> THEN <<>>
    ELSE <<TABLE_HEADER, TABLE_SEPARATOR>>
            \o [k \in 1..Len(milestones) |-> table_row(milestones[k])]

\* lines 522-617, line by line.  Of the sections above the roadmap, whose text
\* does not depend on the milestones and holds no roadmap heading, the
\* first stands for all.
generate_readme_content(repo_name, m) ==
    <<STATUS_HEADING, <<>>, Rule, <<>>, HEADING, <<>>>>
       \o roadmap_table(get_repo_milestones(m, repo_name))
       \o <<<<>>, <<>>, Rule, <<>>, LICENSE_HEADING>>

\* lines 680-688: the README of every listed repository that has a path is
\* written anew
RECURSIVE standardized(_, _, _)
standardized(readmes, repos, m) ==
    IF repos = <<>> THEN readmes
    ELSE LET repo_name == GetNone(Head(repos).name)
         IN standardized(IF Truthy(repo_name) /\ repo_name \in REPO_PATHS
                         THEN (repo_name :> generate_readme_content(repo_name, m)) @@ readmes
                         ELSE readmes,
                         Tail(repos), m)

\* standardize_readmes.py main()
StandardizeMain(dry, repo_arg) ==
    /\ load_ok
    /\ LET repos == repositories_to_sync(manifest, repo_arg)
       IN /\ op' = "standardize"
          /\ dry_run' = dry
          /\ only_repo' = repo_arg
          /\ loaded' = manifest.milestones
          /\ exit_code' = IF repos = <<>> THEN 1 ELSE 0
          /\ readme' = IF dry THEN readme ELSE standardized(readme, repos, manifest)
    /\ no_save
    /\ UNCHANGED <<cleaned, removed, errors, warnings, raised, extracted, updated_count,
                   rebuilt, skipped, status_text, status_norm, pipeline_vars>>

StandardizeLoadFails ==
    /\ load_failed("standardize", FALSE)
    /\ UNCHANGED <<errors, warnings, raised, readme, extracted, updated_count, only_repo,
                   rebuilt, skipped, status_text, status_norm, pipeline_vars>>

\* the statuses a ledger milestone is given
LedgerStatuses == {TODO, IN_PROGRESS, DONE, PLANNED}

\* ledgers of one and of two milestones with every status
StandardizeLedgers ==
    {<<>>}
    \cup {<<Milestone(ID1, TitleSetupAPI, INFRA, s, D2, ABSENT, PHISHING)>> : s \in LedgerStatuses}
    \cup {<<Milestone(ID1, TitleSetupAPI, INFRA, s1, D1, ABSENT, PHISHING),
            Milestone(ID2, TitleScaffold, DOCS, s2, D1, ABSENT, SECURE)>> :
              s1 \in LedgerStatuses, s2 \in {TODO, DONE}}

InitStandardize ==
    \E ms \in StandardizeLedgers :
        StartOn([BaseManifest EXCEPT !.milestones = ms], TRUE, <<>>)

NextStandardize ==
    \/ \E dry \in BOOLEAN, repo_arg \in RepoArgs : StandardizeMain(dry, repo_arg)
    \/ StandardizeLoadFails
    \/ \E dry \in BOOLEAN, repo_arg \in RepoArgs : SyncMain(dry, repo_arg)
    \/ SyncLoadFails

SpecStandardize == InitStandardize /\ [][NextStandardize]_vars

-----------------------------------------------------------------------------
(* sync_workspace.py: the eight steps of main()                             *)
(* Each step hands one script to run_script, which looks at nothing but     *)
(* whether the script exists and what its process returned; the return      *)
(* codes are therefore drawn freely.                                        *)

\* the script of each step and whether --repo is passed on to it
STEPS ==
    << [script |-> "validate_manifest.py", takes_repo |-> FALSE],
       [script |-> "standardize_readmes.py", takes_repo |-> TRUE],
       [script |-> "sync_roadmaps_to_manifest.py", takes_repo |-> TRUE],
       [script |-> "manifest2readme.py", takes_repo |-> FALSE],
       [script |-> "generate_repo_covers.py", takes_repo |-> FALSE],
       [script |-> "add_cover_urls.py", takes_repo |-> FALSE],
       [script |-> "setup_precommit_hooks.py", takes_repo |-> TRUE],
       [script |-> "validate_manifest.py", takes_repo |-> FALSE] >>

HOOKS == 7

\* what a process may return
ReturnCodes == {0, 1, 2}

\* line 39: ["python3", str(script_path)] + args
command(n, repo) ==
    [step |-> n,
     script |-> STEPS[n].script,
     args |-> IF STEPS[n].takes_repo /\ Truthy(repo) THEN <<"--repo", repo>> ELSE <<>>]

\* every step ends main() when run_script returns False
fatal_at_every_step(n) == TRUE

\* lines 80-129: sys.exit(1) follows a False of every step but the hook setup,
\* which only prints a warning (lines 120-121)
fatal(n) == n # HOOKS

\* step n is over
StepResult(n, outcome, returncode) == [step |-> n, outcome |-> outcome, returncode |-> returncode]

\* main() after run_script returned ok for the step it is at
after_step(ok, outcome, returncode) ==
    /\ results' = Append(results, StepResult(step, outcome, returncode))
    /\ IF ~ok /\ fatal(step)
       THEN step' = step /\ exit_code' = 1
       ELSE step' = step + 1 /\ exit_code' = 0

\* main() is inside one of its steps
InPipeline == op = "sync_workspace" /\ exit_code = 0 /\ step \in 1..Len(STEPS)

\* subprocess.run has been called for the step and has not returned
Running ==
    /\ InPipeline
    /\ started # <<>>
    /\ started[Len(started)].step = step
    /\ \A k \in 1..Len(results) : results[k].step # step

\* main() is about to call run_script for the step
AtCall == InPipeline /\ ~Running /\ ~(step = HOOKS /\ skip_hooks)

pipeline_frame ==
    UNCHANGED <<manifest, disk_ok, op, dry_run, loaded, cleaned, removed, saved, errors,
                warnings, raised, readme, extracted, updated_count, only_repo, rebuilt,
                skipped, status_text, status_norm, skip_hooks>>

\* lines 117, 122-123
SkipHooks ==
    /\ InPipeline /\ step = HOOKS /\ skip_hooks
    /\ results' = Append(results, StepResult(step, "skipped", 0))
    /\ step' = step + 1
    /\ UNCHANGED <<started, exit_code>>
    /\ pipeline_frame

\* lines 34-37: the script is not there
ScriptMissing ==
    /\ AtCall
    /\ after_step(FALSE, "missing", 0)
    /\ UNCHANGED started
    /\ pipeline_frame

\* lines 41-43
WouldRun ==
    /\ AtCall /\ dry_run
    /\ after_step(TRUE, "would_run", 0)
    /\ UNCHANGED started
    /\ pipeline_frame

\* lines 45-51: subprocess.run is entered
StartScript ==
    /\ AtCall /\ ~dry_run
    /\ started' = Append(started, command(step, only_repo))
    /\ UNCHANGED <<step, results, exit_code>>
    /\ pipeline_frame

\* lines 52-62: the process is over; check=True raises on a return code
\* other than 0
ScriptCompletes(returncode) ==
    /\ Running
    /\ after_step(returncode = 0, IF returncode = 0 THEN "ok" ELSE "failed", returncode)
    /\ UNCHANGED started
    /\ pipeline_frame

InitWorkspace ==
    /\ manifest = BaseManifest /\ disk_ok = TRUE
    /\ op = "sync_workspace"
    /\ dry_run \in BOOLEAN
    /\ only_repo \in {NONE, PHISHING}
    /\ skip_hooks \in BOOLEAN
    /\ step = 1 /\ started = <<>> /\ results = <<>> /\ exit_code = 0
    /\ loaded = <<>> /\ cleaned = <<>> /\ removed = <<>> /\ saved = "none"
    /\ errors = <<>> /\ warnings = <<>> /\ raised = FALSE
    /\ readme = <<>> /\ extracted = <<>> /\ updated_count = 0
    /\ rebuilt = <<>> /\ skipped = <<>>
    /\ status_text = <<>> /\ status_norm = NONE

NextWorkspace ==
    \/ SkipHooks
    \/ ScriptMissing
    \/ WouldRun
    \/ StartScript
    \/ \E returncode \in ReturnCodes : ScriptCompletes(returncode)

SpecWorkspace == InitWorkspace /\ [][NextWorkspace]_vars

-----------------------------------------------------------------------------
(* Properties of cleanup_duplicates and of the sync-artifact removal *)

Indices(seq) == 1..Len(seq)

\* a run of the named script that got past load_manifest
Ran(name) == op = name /\ exit_code = 0

\* the output milestones of the last run that are filed under key
OutputsUnder(key) == {n \in Indices(cleaned) : group_key(cleaned[n]) = key}

SameRepo(a, b) == Get(a.repo, <<>>) = Get(b.repo, <<>>)

\* the synonym table, in the order the rules are tried
SynonymEntries ==
    << {<<"s","c","a","f","f","o","l","d">>, <<"r","e","p","o">>},
       {<<"s","e","c","u","r","e">>, <<"a","p","i">>, <<"i","n","t","e","g","r","a","t","i","o","n">>},
       {<<"d","o","c","k","e","r">>, <<"c","i">>},
       {<<"j","w","t">>, <<"a","u","t","h">>} >>

\* the entries all of whose keywords the title contains (case and ' ', '-', '_' ignored)
EntriesOf(title) ==
    LET nt == normalized_title(title)
    IN {e \in 1..Len(SynonymEntries) : \A w \in SynonymEntries[e] : Contains(nt, w)}

\* the first such entry, 0 when there is none
FirstEntry(title) ==
    LET entries == EntriesOf(title)
    IN IF entries = {} THEN 0 ELSE CHOOSE e \in entries : \A f \in entries : e <= f

\* the two records end in one group and the group leaves one output milestone
MergedIntoOne(a, b) ==
    /\ group_key(a) = group_key(b)
    /\ Cardinality(OutputsUnder(group_key(a))) = 1

\* C1: deduplication is idempotent: cleanup_duplicates applied to its own output
\* finds no group of two or more and returns that output unchanged; a run that
\* writes leaves that output in manifest.json; the sync-artifact removal applied
\* to its own output removes nothing.
C1_Idempotent ==
    /\ Ran("cleanup") =>
          /\ \A n \in Indices(cleaned) : OutputsUnder(group_key(cleaned[n])) = {n}
          /\ cleanup_duplicates(cleaned) = cleaned
          /\ (~dry_run /\ disk_ok) => manifest.milestones = cleaned
    /\ Ran("remove_sync") =>
          /\ removed_milestones(cleaned) = <<>>
          /\ original_milestones(cleaned) = cleaned

\* a run of cleanup that merged a group of three and wrote the result
C1_Witness ==
    /\ Ran("cleanup") /\ saved = "ok"
    /\ Len(loaded) = 3 /\ Len(cleaned) = 1

\* C5 as stated: two records of one repo whose titles both contain every keyword
\* of one shared synonym entry end in the same group and leave one output
\* milestone, whatever else their titles contain.
C5_AnySharedEntry ==
    Ran("cleanup") =>
        \A i, j \in Indices(loaded) :
            (/\ i < j
             /\ SameRepo(loaded[i], loaded[j])
             /\ EntriesOf(loaded[i].title) \cap EntriesOf(loaded[j].title) # {})
            => MergedIntoOne(loaded[i], loaded[j])

\* C5, amended: two records of one repo for whose titles the first matching
\* synonym entry, in the order the rules are tried, is the same entry end in the
\* same group and leave exactly one output milestone.
C5_SameFirstEntry ==
    Ran("cleanup") =>
        \A i, j \in Indices(loaded) :
            (/\ i < j
             /\ SameRepo(loaded[i], loaded[j])
             /\ FirstEntry(loaded[i].title) # 0
             /\ FirstEntry(loaded[i].title) = FirstEntry(loaded[j].title))
            => MergedIntoOne(loaded[i], loaded[j])

\* 'Docker CI/CD setup' and 'Docker CI setup' of one repo were merged into one
C5_Witness ==
    /\ Ran("cleanup")
    /\ Len(loaded) = 2 /\ Len(cleaned) = 1
    /\ loaded[1].title = TitleDockerCICD /\ loaded[2].title = TitleDockerCI
    /\ SameRepo(loaded[1], loaded[2])

\* 'lowercase letters, one hyphen, digits', the number at or above the watermark
IsSyncArtifactId(id) ==
    LET parts == Split(id, "-")
    IN /\ Len(parts) = 2
       /\ parts[1] # <<>> /\ \A i \in Indices(parts[1]) : IsLowerAlpha(parts[1][i])
       /\ parts[2] # <<>> /\ \A i \in Indices(parts[2]) : IsDigit(parts[2][i])
       /\ ParseInt(parts[2]) >= 20

\* the milestones of a list that are kept, in their order
RECURSIVE KeptOf(_)
KeptOf(ms) ==
    IF ms = <<>> THEN <<>>
    ELSE (IF IsSyncArtifactId(Get(Head(ms).id, <<>>)) THEN <<>> ELSE <<Head(ms)>>)
         \o KeptOf(Tail(ms))

\* C6: remove_sync_duplicates removes a milestone exactly when its id is lowercase
\* letters, one hyphen, digits with the number at or above 20; every other
\* milestone is kept unchanged, in its relative order, and that list is what a
\* successful run writes.
C6_RemovesExactlySyncArtifacts ==
    Ran("remove_sync") =>
        /\ cleaned = KeptOf(loaded)
        /\ Len(removed) + Len(cleaned) = Len(loaded)
        /\ \A n \in Indices(removed) : IsSyncArtifactId(Get(removed[n].id, <<>>))
        /\ saved = "ok" => manifest = [BaseManifest EXCEPT !.milestones = KeptOf(loaded)]

\* phishing-19, phishing-20, phishing-21: the first is kept, the other two removed
C6_Witness ==
    /\ Ran("remove_sync") /\ saved = "ok"
    /\ Len(loaded) = 3
    /\ loaded[1].id = SyncIds[1] /\ loaded[2].id = SyncIds[2] /\ loaded[3].id = SyncIds[3]
    /\ manifest.milestones = <<loaded[1]>>

\* the triple the validator compares: (repo or "", title.strip().lower(), due or date or "")
DuplicateTriple(m) ==
    << IF Truthy(m.repo) THEN m.repo ELSE <<>>,
       IF Truthy(m.title) THEN Lower(Strip(m.title)) ELSE <<>>,
       IF Truthy(m.due) THEN m.due ELSE IF Truthy(m.date) THEN m.date ELSE <<>> >>

\* C8 as stated: after cleanup_duplicates no two milestones of the result share
\* the triple (repo, title stripped and lower-cased, due-or-date).
C8_NoDuplicateTriple ==
    Ran("cleanup") =>
        \A i, j \in Indices(cleaned) :
            i < j => DuplicateTriple(cleaned[i]) # DuplicateTriple(cleaned[j])

\* C9 as stated: two records of one repo whose titles are equal after
\* case-folding and stripping whitespace and punctuation end in the same group
\* and leave one output milestone.
C9_NormalizedTitlesGrouped ==
    Ran("cleanup") =>
        \A i, j \in Indices(loaded) :
            (/\ i < j
             /\ SameRepo(loaded[i], loaded[j])
             /\ normalized_title(loaded[i].title) = normalized_title(loaded[j].title))
            => MergedIntoOne(loaded[i], loaded[j])

\* a value that is neither absent, empty nor the placeholder 'todo'
NonDefault(v) == Truthy(v) /\ v # TODO

\* the group of the input that the n-th output milestone stands for
GroupOfOutput(n) == grouped(loaded, milestone_keys(loaded), group_key(cleaned[n]))

\* the value the claim gives field f of a merged group: the first non-empty,
\* non-'todo' value in extraction order when there is one
FirstNonDefault(group, f) ==
    group[CHOOSE i \in Indices(group) :
             /\ NonDefault(group[i][f])
             /\ \A k \in 1..(i - 1) : ~NonDefault(group[k][f])][f]

\* C10: for every group of two or more merged by cleanup_duplicates the merged
\* title (and repo) is the first record's; each of category, status, due, date,
\* id is the first non-empty, non-'todo' value in extraction order when one
\* exists, so a non-default value of the first record is never overwritten;
\* otherwise it is a value some record of the group held, and no field of the
\* first record is deleted.
C10_MergePrecedence ==
    Ran("cleanup") =>
        \A n \in Indices(cleaned) :
            LET group == GroupOfOutput(n)
                merged == cleaned[n]
            IN Len(group) >= 2 =>
                  /\ merged.title = group[1].title
                  /\ merged.repo = group[1].repo
                  /\ \A f \in {"category", "status", "due", "date", "id"} :
                        /\ (\E i \in Indices(group) : NonDefault(group[i][f]))
                              => merged[f] = FirstNonDefault(group, f)
                        /\ NonDefault(group[1][f]) => merged[f] = group[1][f]
                        /\ \E i \in Indices(group) : merged[f] = group[i][f]
                        /\ group[1][f] # ABSENT => merged[f] # ABSENT

\* a group of three whose first status is 'todo', whose second is 'done' and
\* whose third is 'in_progress': the merged status is 'done'
C10_Witness ==
    /\ Ran("cleanup")
    /\ Len(loaded) = 3 /\ Len(cleaned) = 1
    /\ loaded[1].status = TODO /\ loaded[2].status = DONE /\ loaded[3].status = IN_PROGRESS
    /\ loaded[1].title # loaded[2].title
    /\ cleaned[1].status = DONE /\ cleaned[1].title = loaded[1].title

-----------------------------------------------------------------------------
(* Properties of the roadmap-table extraction *)

\* the titles of the three-cell rows of the READMEs
ThreeCellTitles == {TitleDockerCIShort, TitleSetupAPI}

\* the first record after the first of a group that has a non-empty category
FirstLaterCategory(group) ==
    group[CHOOSE i \in 2..Len(group) :
             /\ Truthy(group[i].category)
             /\ \A k \in 2..(i - 1) : ~Truthy(group[k].category)].category

\* C7: a three-cell table row is extracted with category None; and when
\* cleanup_duplicates merges a group whose first record has no category and
\* in which a later record has a non-empty one, the merged milestone carries
\* the later category (that of the earliest such record).
C7_LegacyRowCategoryPromoted ==
    /\ (op = "sync" /\ exit_code = 0) =>
          \A k \in Indices(extracted) :
              extracted[k].title \in ThreeCellTitles => extracted[k].category = NONE
    /\ Ran("cleanup") =>
          \A n \in Indices(cleaned) :
              LET group == GroupOfOutput(n)
              IN (/\ Len(group) >= 2
                  /\ ~Truthy(group[1].category)
                  /\ \E i \in 2..Len(group) : Truthy(group[i].category))
                 => cleaned[n].category = FirstLaterCategory(group)

\* a sync wrote the three-cell row 'Docker CI' into the ledger with category
\* None, and the cleanup after it merged it with the four-cell row
\* 'Docker CI/CD' of category 'Infra'
C7_Witness ==
    /\ Ran("cleanup")
    /\ \E k \in Indices(extracted) :
          extracted[k].title = TitleDockerCIShort /\ extracted[k].category = NONE
    /\ \E n \in Indices(cleaned) :
          /\ Len(GroupOfOutput(n)) >= 2
          /\ GroupOfOutput(n)[1].title = TitleDockerCIShort
          /\ GroupOfOutput(n)[1].category = NONE
          /\ cleaned[n].category = INFRA
          /\ cleaned[n].title = TitleDockerCIShort

-----------------------------------------------------------------------------
(* Properties of validate_manifest.py *)

\* validate_manifest.py ran on a file that parsed and exited with status 0
Accepted == op = "validate" /\ disk_ok /\ exit_code = 0

Listed == milestones_listed(manifest)

\* C2: in every accepted ledger all milestone ids are present and pairwise
\* distinct, and every milestone's stored status is one of todo, in_progress,
\* done, planned.
C2_IdsDistinctStatusInEnum ==
    Accepted =>
        /\ \A j \in Indices(Listed) : Truthy(Listed[j].id)
        /\ \A j, k \in Indices(Listed) : j # k => Listed[j].id # Listed[k].id
        /\ \A j \in Indices(Listed) : Listed[j].status \in ALLOWED_MS_STATUS

\* the date strings of the ledgers that datetime.strptime parses under
\* %d/%m/%Y or %Y-%m-%d
ParsingDates == {D1, D2, D_SHORT, D_LEAP}

\* C3: in every accepted ledger every milestone has a non-empty due or date,
\* and every non-empty due or date parses under dd/mm/yyyy or yyyy-mm-dd.
C3_DatesPresentAndParse ==
    Accepted =>
        \A j \in Indices(Listed) :
            /\ Truthy(Listed[j].due) \/ Truthy(Listed[j].date)
            /\ Truthy(Listed[j].due) => Listed[j].due \in ParsingDates
            /\ Truthy(Listed[j].date) => Listed[j].date \in ParsingDates

\* an accepted ledger of two or more milestones, one with an empty due and a
\* date, one with a due and no date
C3_Witness ==
    /\ Accepted
    /\ \E j, k \in Indices(Listed) :
        /\ Listed[j].due = <<>> /\ Listed[j].date = D_LEAP
        /\ Listed[k].due = D1 /\ Listed[k].date = ABSENT

DeclaredNames(m) ==
    {repositories_listed(m)[k].name : k \in Indices(repositories_listed(m))}

\* the milestones whose non-empty repo equals no repositories[].name
Dangling(m) ==
    {j \in Indices(milestones_listed(m)) :
        /\ Truthy(GetNone(milestones_listed(m)[j].repo))
        /\ milestones_listed(m)[j].repo \notin DeclaredNames(m)}

\* what the validation rules ask of a milestone apart from its repo
WellFormedMilestone(ms) ==
    /\ Truthy(ms.id)
    /\ Truthy(ms.title)
    /\ ms.title # NOT_A_STRING
    /\ ms.status \in ALLOWED_MS_STATUS
    /\ Truthy(ms.due) \/ Truthy(ms.date)
    /\ Truthy(ms.due) => ms.due \in ParsingDates
    /\ Truthy(ms.date) => ms.date \in ParsingDates

\* the ledger breaks no validation rule, dangling repos aside: its top-level
\* keys and its repositories are those of a valid ledger, every milestone is
\* well formed, and no two share an id or a title
ValidApartFromRepos(m) ==
    /\ [m EXCEPT !.milestones = <<>>, !.repositories = BaseManifest.repositories] = BaseManifest
    /\ m.repositories \in {<<Declared(PHISHING), Declared(SECURE)>>, <<Declared(PHISHING)>>}
    /\ m.milestones \notin {ABSENT_LIST, NOT_A_LIST}
    /\ \A i \in Indices(m.milestones) : WellFormedMilestone(m.milestones[i])
    /\ \A i, k \in Indices(m.milestones) :
          i # k => /\ m.milestones[i].id # m.milestones[k].id
                   /\ Lower(Strip(m.milestones[i].title)) # Lower(Strip(m.milestones[k].title))

\* the ledger is valid but for the repo of its j-th milestone, the only one
\* that is dangling
OtherwiseValid(m, j) == ValidApartFromRepos(m) /\ Dangling(m) = {j}

\* C4: a ledger that is otherwise valid and has exactly one milestone whose
\* non-empty repo equals no repositories[].name fails with exit status 1 and
\* exactly one error, which names that milestone's id.
C4_OneErrorForDanglingRepo ==
    (op = "validate" /\ disk_ok) =>
        \A j \in Indices(Listed) :
            OtherwiseValid(manifest, j) =>
                /\ exit_code = 1
                /\ errors = <<Finding("ms_repo", j, Listed[j].id)>>

\* the dangling repo is the second of three milestones' and the only error
C4_Witness ==
    /\ op = "validate" /\ disk_ok
    /\ Len(Listed) = 3
    /\ OtherwiseValid(manifest, 2)
    /\ Listed[3].repo = ABSENT
    /\ exit_code = 1

-----------------------------------------------------------------------------
(* Properties of rebuild_manifest_from_roadmaps.py *)

\* the source-to-prefix table
IdPrefixTable ==
    (ROADMAP_REPO :> <<"a","i","-","c","y","b","e","r">>)
    @@ (ML_FOUNDATIONS :> <<"m","l">>)
    @@ (PHISHING :> <<"p","h","i","s","h","i","n","g">>)
    @@ (SECURE :> SECURE)
    @@ (AI_CHAT_RAG :> <<"a","i","-","c","h","a","t">>)
    @@ (FLUTTER_IAM :> <<"i","a","m">>)
    @@ (API_SHOWCASE :> API_SHOWCASE)

IdPrefix(repo) == IF repo \in DOMAIN IdPrefixTable THEN IdPrefixTable[repo] ELSE repo

\* how many records of the source of rebuilt[n] the rebuilt ledger holds up to n
RankInSource(n) == Cardinality({h \in 1..n : rebuilt[h].repo = rebuilt[n].repo})

\* the extracted record k repeats the (title, due) pair of an earlier one
RepeatsEarlierPair(k) ==
    \E h \in 1..(k - 1) :
        extracted[h].title = extracted[k].title /\ extracted[h].due = extracted[k].due

\* C11: in the rebuilt ledger the k-th retained record of a source carries the
\* id prefix(source)-k, two digits, so the ids run from 01 without gaps per
\* source and no two records share an id
C11_RebuiltIdsConsecutivePerSource ==
    Ran("rebuild") =>
        /\ \A n \in Indices(rebuilt) :
              rebuilt[n].id = IdPrefix(rebuilt[n].repo) \o <<"-">> \o TwoDigits(RankInSource(n))
        /\ \A n, h \in Indices(rebuilt) : n # h => rebuilt[n].id # rebuilt[h].id

\* a rebuild over two sources in which a source keeps a record that follows a
\* dropped one of the same source
C11_Witness ==
    /\ Ran("rebuild")
    /\ saved = "ok"
    /\ \E n, h \in Indices(rebuilt) : rebuilt[n].repo # rebuilt[h].repo
    /\ \E i, j \in Indices(extracted) :
          /\ i < j
          /\ extracted[i].repo = extracted[j].repo
          /\ RepeatsEarlierPair(i)
          /\ ~RepeatsEarlierPair(j)

\* the extracted records that are first, and not first, with their (title, due)
KeptIndices == {k \in Indices(extracted) : ~RepeatsEarlierPair(k)}
DroppedIndices == {k \in Indices(extracted) : RepeatsEarlierPair(k)}

\* the n-th smallest element of a set of numbers
NthOf(S, n) == CHOOSE k \in S : Cardinality({h \in S : h <= k}) = n

\* C13: of the records extracted in one pass that share a (title, due) pair
\* the first is kept and every later one is dropped with a diagnostic and
\* without an id; a record whose pair is unique is kept
C13_FirstOfEachPairKept ==
    Ran("rebuild") =>
        /\ Len(rebuilt) = Cardinality(KeptIndices)
        /\ \A n \in Indices(rebuilt) :
              LET from == extracted[NthOf(KeptIndices, n)]
              IN /\ rebuilt[n].title = from.title
                 /\ rebuilt[n].due = from.due
                 /\ rebuilt[n].repo = from.repo
                 /\ rebuilt[n].id # ABSENT
        /\ Len(skipped) = Cardinality(DroppedIndices)
        /\ \A n \in Indices(skipped) : skipped[n] = extracted[NthOf(DroppedIndices, n)]

\* a rebuild that drops a repeated pair and keeps a record that shares only
\* the title with an earlier one
C13_Witness ==
    /\ Ran("rebuild")
    /\ skipped # <<>>
    /\ \E i, j \in KeptIndices :
          i < j /\ extracted[i].title = extracted[j].title /\ extracted[i].due # extracted[j].due

-----------------------------------------------------------------------------
(* Properties of sync_roadmaps_to_manifest.py *)

IdsDistinct(milestones) ==
    \A n, h \in Indices(milestones) : n # h => milestones[n].id # milestones[h].id

\* the positions of the ledger a sync wrote that hold the milestones it added
AddedBySync == (Len(loaded) + 1)..Len(manifest.milestones)

\* C12: every id a sync assigns to a milestone it adds differs from every id
\* already in the ledger and from every other id assigned in the same run,
\* whenever the ids of the starting ledger are distinct
C12_AssignedIdsFresh ==
    (op = "sync" /\ saved = "ok" /\ IdsDistinct(loaded)) =>
        \A k \in AddedBySync : \A h \in Indices(manifest.milestones) :
            h # k => manifest.milestones[h].id # manifest.milestones[k].id

\* the lines of a roadmap section that are data rows of three or four cells
\* under a header row
RECURSIVE WellFormedRows(_, _)
WellFormedRows(lines, in_table) ==
    IF lines = <<>> THEN <<>>
    ELSE LET line == Strip(Head(lines))
         IN IF line # <<>> /\ is_header_row(line) THEN WellFormedRows(Tail(lines), TRUE)
            ELSE (IF /\ in_table
                     /\ Contains(line, <<"|">>)
                     /\ ~Contains(line, <<"-","-","-">>)
                     /\ Len(row_parts(line)) \in {3, 4}
                  THEN <<line>> ELSE <<>>)
                 \o WellFormedRows(Tail(lines), in_table)

\* the extracted milestones of one repository
ExtractedOf(repo) == SelectSeq(extracted, LAMBDA m : m.repo = repo)

\* C15: a row of fewer than three or more than four cells is skipped and
\* every well-formed row of the same README is still extracted
C15_MalformedRowSkipped ==
    (op = "sync" /\ exit_code = 0 /\ only_repo \in {NONE, PHISHING}) =>
        Len(ExtractedOf(PHISHING)) = Len(WellFormedRows(roadmap_section(readme[PHISHING]), FALSE))

\* validate_manifest.py would report no ERROR on the ledger
PassesValidation(m) == LET v == validate(m) IN ~v.raised /\ v.errors = <<>>

\* C16: a run writes manifest.json only after the content it writes has
\* passed validation, so a ledger that was written passes validation
C16_WrittenLedgerValidated ==
    (op \in {"sync", "rebuild", "cleanup"} /\ saved = "ok") => PassesValidation(manifest)

-----------------------------------------------------------------------------
(* Properties of the status normalization *)

\* the status text holds one of the words
HoldsAny(text, words) == \E w \in words : Contains(text, w)

DoneMarks == {<<CHECK>>, <<"D","o","n","e">>}
ProgressMarks ==
    {<<HOURGLASS>>, <<"P","e","n","d","i","n","g">>, <<"I","n"," ","P","r","o","g","r","e","s","s">>}

\* C14: the status of a row is done when its text holds the checkmark or
\* 'Done'; otherwise in_progress when it holds the hourglass, 'Pending' or
\* 'In Progress'; otherwise todo; it is always one of the three
C14_StatusPrecedence ==
    status_norm # NONE =>
        /\ status_norm \in {DONE, IN_PROGRESS, TODO}
        /\ status_norm = DONE <=> HoldsAny(status_text, DoneMarks)
        /\ status_norm = IN_PROGRESS <=>
              (~HoldsAny(status_text, DoneMarks) /\ HoldsAny(status_text, ProgressMarks))

\* a text that holds a mark of both kinds was normalized, and came out done
C14_Witness ==
    /\ status_norm = DONE
    /\ HoldsAny(status_text, DoneMarks)
    /\ HoldsAny(status_text, ProgressMarks)

-----------------------------------------------------------------------------
(* Properties of load_manifest and save_manifest *)

\* C17: manifest.json never holds a truncated ledger, and after a
\* save_manifest that failed it still holds the ledger the run loaded
C17_FailedSaveKeepsLedger ==
    /\ disk_ok
    /\ saved = "failed" => manifest.milestones = loaded

\* the last run ended in load_manifest: the file does not parse and the run
\* did not get as far as save_manifest
EndedAtLoad ==
    /\ op \in {"sync", "rebuild", "cleanup", "remove_sync"}
    /\ ~disk_ok
    /\ saved = "none"

\* C20: a reconciliation script that cannot read manifest.json ends with
\* exit code 2 and writes nothing
C20_UnreadableLedgerExitsTwo == EndedAtLoad => exit_code = 2

-----------------------------------------------------------------------------
(* Properties of the report and the exit status of validate_manifest.py *)

\* validate_manifest.py got past the loading of manifest.json
Validated == op = "validate" /\ exit_code # 2

\* C18: the validator reports every violation of a ledger that parses: it ends
\* with its report, and a violation found earlier (topics that are no list of
\* strings) keeps no later milestone from being checked and reported
C18_EveryViolationReported ==
    Validated =>
        /\ ~raised
        /\ \A j \in Dangling(manifest) :
              \E n \in Indices(errors) : errors[n].kind = "ms_repo" /\ errors[n].at = j

\* C19: the exit status is 2 exactly when manifest.json is missing or does not
\* parse, 1 exactly when it parses and at least one ERROR was collected, and 0
\* otherwise; warnings alone leave it 0
C19_ExitStatus ==
    op = "validate" =>
        /\ exit_code \in {0, 1, 2}
        /\ exit_code = 2 <=> ~disk_ok
        /\ exit_code = 1 <=> (disk_ok /\ errors # <<>>)

-----------------------------------------------------------------------------
(* Dry runs *)

DryRunScripts == {"sync", "rebuild", "cleanup"}

\* a real run of the script that just ran dry would have written the ledger
RealRunWouldWrite ==
    \/ op = "cleanup" /\ Len(cleaned) < Len(loaded)
    \/ op = "rebuild" /\ Len(rebuilt) > 0
    \/ op = "sync" /\ ~raised /\ updated_count > 0

\* C21: a run of sync, rebuild or cleanup with --dry-run never saves: the
\* ledger file after the run is the file before it, whole or cut short as it was
C21_DryRunWritesNothing ==
    [][(dry_run' /\ op' \in DryRunScripts)
          => /\ saved' = "none"
             /\ manifest' = manifest
             /\ disk_ok' = disk_ok]_vars

\* a dry run has just ended on a ledger that a real run would have rewritten
C21_Witness ==
    /\ dry_run
    /\ op \in DryRunScripts
    /\ exit_code = 0
    /\ RealRunWouldWrite
    /\ manifest.milestones = loaded

-----------------------------------------------------------------------------
(* The diff a dry run of the sync reports *)

\* the ledger the last run loaded
LoadedManifest == [BaseManifest EXCEPT !.milestones = loaded]

\* the sync folded its rows into the ledger it loaded
Folded == Ran("sync") /\ extracted # <<>> /\ ~raised

\* what update_manifest_milestones returns on the same ledger and the same
\* rows with the other value of dry_run
OtherRun == update_manifest_milestones(LoadedManifest, extracted, ~dry_run)

-----------------------------------------------------------------------------
(* The sync of one repository *)

\* the ledger apart from its milestones
OtherKeys(m) == [m EXCEPT !.milestones = <<>>]

\* C23: a sync with --repo NAME leaves every milestone of another repo and
\* every other key of the ledger as they were, and what it adds belongs to
\* NAME; when NAME is not a declared repository it exits with code 1 and
\* writes nothing.  (A write that is cut short is the subject of C17.)
C23_RepoFilterFrame ==
    [][(op' = "sync" /\ Truthy(only_repo'))
          => IF only_repo' \notin DeclaredNames(manifest)
             THEN exit_code' = 1 /\ saved' = "none" /\ manifest' = manifest
             ELSE saved' # "failed"
                  => /\ OtherKeys(manifest') = OtherKeys(manifest)
                     /\ Len(manifest'.milestones) >= Len(manifest.milestones)
                     /\ \A j \in Indices(manifest'.milestones) :
                           IF j <= Len(manifest.milestones)
                           THEN manifest.milestones[j].repo # only_repo'
                                   => manifest'.milestones[j] = manifest.milestones[j]
                           ELSE manifest'.milestones[j].repo = only_repo']_vars

\* a sync of phishing-classifier alone rewrote a ledger that holds a milestone
\* of secure-ai-api, whose README has rows too
C23_Witness ==
    /\ Ran("sync")
    /\ only_repo = PHISHING
    /\ saved = "ok"
    /\ manifest.milestones # loaded
    /\ SECURE \in DOMAIN readme
    /\ \E j \in Indices(loaded) : loaded[j].repo = SECURE

-----------------------------------------------------------------------------
(* The sync run twice *)

\* a sync wrote the ledger and the next step is the same sync again: the
\* READMEs are the same, so the rows are
SyncedAgain ==
    /\ Ran("sync") /\ ~dry_run /\ saved = "ok"
    /\ op' = "sync" /\ ~dry_run' /\ only_repo' = only_repo /\ exit_code' = 0

\* C24: a second real sync with the same rows on the ledger the first one
\* wrote updates nothing and adds nothing
C24_SecondSyncChangesNothing ==
    [][SyncedAgain => updated_count' = 0 /\ saved' = "none"]_vars

-----------------------------------------------------------------------------
(* What a sync may change in a milestone the ledger already holds *)

MilestoneFields == {"id", "title", "category", "status", "due", "date", "repo"}

\* C25: a sync that rewrites the ledger keeps every field of every milestone
\* the ledger held, except a category, due or status that was absent, empty or
\* the default 'todo'
C25_SyncKeepsSetFields ==
    [][(op' = "sync" /\ saved' = "ok")
          => \A j \in Indices(manifest.milestones) :
                /\ j <= Len(manifest'.milestones)
                /\ \A f \in MilestoneFields :
                      manifest'.milestones[j][f] # manifest.milestones[j][f]
                         => /\ f \in {"category", "status", "due"}
                            /\ ~NonDefault(manifest.milestones[j][f])]_vars

-----------------------------------------------------------------------------
(* The rows of a roadmap section that are data *)

COLUMN_NAMES ==
    {<<"M","i","l","e","s","t","o","n","e">>, <<"C","a","t","e","g","o","r","y">>,
     <<"D","a","t","e">>, <<"T","a","r","g","e","t"," ","D","a","t","e">>,
     <<"S","t","a","t","u","s">>}

\* a row whose cells are the column names
HeaderRow(line) ==
    row_parts(line) # <<>> /\ \A k \in Indices(row_parts(line)) : row_parts(line)[k] \in COLUMN_NAMES

\* a row whose cells are all dashes
SeparatorRow(line) ==
    /\ row_parts(line) # <<>>
    /\ \A k \in Indices(row_parts(line)) : Remove(row_parts(line)[k], "-") = <<>>

\* the rows after the header that are neither, with three or four cells
RECURSIVE DataRows(_, _)
DataRows(lines, after_header) ==
    IF lines = <<>> THEN <<>>
    ELSE LET line == Strip(Head(lines))
         IN IF HeaderRow(line) THEN DataRows(Tail(lines), TRUE)
            ELSE (IF /\ after_header
                     /\ Contains(line, <<"|">>)
                     /\ ~SeparatorRow(line)
                     /\ Len(row_parts(line)) \in {3, 4}
                  THEN <<line>> ELSE <<>>)
                 \o DataRows(Tail(lines), after_header)

\* C26: in the roadmap section of a README every row after the header that
\* is neither a header row nor a row of dashes and has three or four cells
\* yields exactly one record, in document order, whatever its cells say
C26_EveryDataRowExtracted ==
    (Ran("rebuild") /\ PHISHING \in DOMAIN readme)
       => LET rows == DataRows(roadmap_section(readme[PHISHING]), FALSE)
              records == ExtractedOf(PHISHING)
          IN /\ Len(records) = Len(rows)
             /\ \A k \in Indices(rows) : records[k].title = row_parts(rows[k])[1]

-----------------------------------------------------------------------------
(* The groups of cleanup_duplicates *)

\* the number of list positions held by record m
Occurrences(ms, m) == Cardinality({i \in Indices(ms) : ms[i] = m})

RECURSIVE SumOfLengths(_)
SumOfLengths(groups) ==
    IF groups = <<>> THEN 0 ELSE Len(Head(groups)) + SumOfLengths(Tail(groups))

\* the groups cleanup_duplicates files the list ms in, as sets of records
GroupsOf(ms) ==
    LET keys == milestone_keys(ms)
    IN {{grouped(ms, keys, key)[n] : n \in Indices(grouped(ms, keys, key))} :
           key \in {keys[i] : i \in Indices(keys)}}

\* the list ms with its i-th and (i+1)-th records swapped
Swapped(ms, i) ==
    [k \in Indices(ms) |-> IF k = i THEN ms[i + 1] ELSE IF k = i + 1 THEN ms[i] ELSE ms[k]]

\* C27: cleanup_duplicates partitions its input: every input milestone is in
\* the group of its key and in no other, the groups taken together hold each
\* position of the input once, the output holds one milestone for each group,
\* and the groups do not depend on the order of the input: swapping two
\* neighbours, of which every reordering is composed, leaves in each group
\* the records it held
C27_GroupsPartitionInput ==
    Ran("cleanup") =>
        LET keys == milestone_keys(loaded)
            order == grouped_keys(keys)
            groups == [k \in Indices(order) |-> grouped(loaded, keys, order[k])]
            sets == GroupsOf(loaded)
        IN /\ \A i \in Indices(loaded), k \in Indices(order) :
                 (\E n \in Indices(groups[k]) : groups[k][n] = loaded[i]) <=> order[k] = keys[i]
           /\ \A i \in Indices(loaded), k \in Indices(order) :
                 order[k] = keys[i]
                    => Occurrences(groups[k], loaded[i]) = Occurrences(loaded, loaded[i])
           /\ SumOfLengths(groups) = Len(loaded)
           /\ Len(cleaned) = Cardinality({keys[i] : i \in Indices(keys)})
           /\ \A k \in Indices(cleaned) : group_key(cleaned[k]) = order[k]
           /\ \A i \in 1..(Len(loaded) - 1) : GroupsOf(Swapped(loaded, i)) = sets

\* a cleanup of three records in two groups, the group of two not adjacent
\* in the list
C27_Witness ==
    /\ Ran("cleanup")
    /\ Len(loaded) = 3
    /\ Len(cleaned) = 2
    /\ group_key(loaded[1]) = group_key(loaded[3])
    /\ group_key(loaded[1]) # group_key(loaded[2])

-----------------------------------------------------------------------------
(* The order of the steps of sync_workspace *)

Failure(r) == r.outcome \in {"failed", "missing"}

\* the process started for step n has returned
Completed(n) == \E k \in Indices(results) : results[k].step = n /\ results[k].outcome \in {"ok", "failed"}

\* C28: in a run without --dry-run the steps start in the order 1 to 8, each
\* after the process of the one started before it has returned; a step of
\* 1-6 or 8 that fails ends the run with exit code 1 and no later step is
\* started; a failed step 7 is followed by step 8
C28_StepsInOrder ==
    (op = "sync_workspace" /\ ~dry_run) =>
        /\ \A i, j \in Indices(started) : i < j => started[i].step < started[j].step
        /\ \A i \in Indices(started) : i < HOOKS => started[i].step = i
        /\ \A i \in 1..(Len(started) - 1) : Completed(started[i].step)
        /\ \A k \in Indices(results) :
              (Failure(results[k]) /\ results[k].step # HOOKS)
                 => /\ exit_code = 1
                    /\ k = Len(results)
                    /\ \A i \in Indices(started) : started[i].step <= results[k].step
        /\ exit_code = 1
              => results # <<>> /\ Failure(results[Len(results)]) /\ results[Len(results)].step # HOOKS
        /\ \A k \in Indices(results) :
              (Failure(results[k]) /\ results[k].step = HOOKS) => step > HOOKS
        /\ step = Len(STEPS) + 1
              => \E i \in Indices(started) : started[i].step = Len(STEPS)

\* the hook setup failed and the final validation was started after it
C28_Witness ==
    /\ op = "sync_workspace" /\ ~dry_run
    /\ \E k \in Indices(results) : results[k].step = HOOKS /\ results[k].outcome = "failed"
    /\ \E i \in Indices(started) : started[i].step = Len(STEPS)

-----------------------------------------------------------------------------
(* The status of a milestone written into a README and read back *)

\* the status a round trip through a README may leave in the ledger
Kept(status) == IF status = PLANNED THEN {PLANNED, TODO} ELSE {status}

\* a run of standardize_readmes wrote the READMEs and the next step is a
\* sync that read them
StandardizeThenSync ==
    /\ Ran("standardize") /\ ~dry_run
    /\ op' = "sync" /\ exit_code' = 0 /\ saved' # "failed"

-----------------------------------------------------------------------------
(* The ids of the sync and the watermark of remove_sync_duplicates *)

\* C30: every id a sync gave to a milestone it added is one that
\* remove_sync_duplicates classifies as a sync artifact
C30_SyncIdsAreRemovable ==
    (Ran("sync") /\ saved = "ok")
       => \A n \in AddedBySync : is_sync_generated(manifest.milestones[n])

====
